---- MODULE Spec2Model ----
(***************************************************************************)
(* go-continuous-fuzz: the cycle controller (startFuzzCycles), the fuzzing *)
(* scheduler (scheduleFuzzing), the task queue and the workers (runWorker), *)
(* the fuzz-process driver (executeFuzzTarget) and the per-target budget   *)
(* (CalculateFuzzSeconds).                                                 *)
(*                                                                         *)
(* Goroutines are processes with a program counter each; a context is a    *)
(* flag that only ever goes from live to done; the fuzz subprocess of a    *)
(* worker is a small state machine that ends on its own or is killed when  *)
(* its context is done.  Timers (the cycle timer, the per-task timeout)    *)
(* fire at a nondeterministic moment after they were armed.                *)
(***************************************************************************)
EXTENDS Integers, Sequences, FiniteSets, TLC

(***************************************************************************)
(* Bounds of the model.                                                    *)
(***************************************************************************)
\* largest cfg.NumWorkers of the controller model
MaxWorkers == 2
\* clock ticks in one second (time.Duration counts nanoseconds; the model
\* keeps a coarser clock, fine enough for durations that are no whole seconds)
TicksPerSecond == 2
\* ranges of the budget model
MaxBudgetTicks == 12
MaxBudgetWorkers == 3
MaxBudgetTargets == 4
\* cycles the corpus model and the report model go through
MaxCycles == 2
\* lines of a fuzz subprocess's output
MaxStreamLen == 3

(***************************************************************************)
(* The repository under test: its packages and the fuzz targets that       *)
(* "go test -list=^Fuzz" prints in each of them.                           *)
(***************************************************************************)
Packages == {"parser", "stringutils", "mathutils", "docs"}

RepoTargets(pkg) ==
    CASE pkg = "parser"      -> <<"FuzzParseComplex", "FuzzEvalExpr">>
      [] pkg = "stringutils" -> <<"FuzzReverseString">>
      [] pkg = "mathutils"   -> <<"FuzzAdd">>
      [] OTHER               -> <<>>

\* the values of cfg.FuzzPkgsPath the model starts from: one package with two
\* targets, a package without targets, two packages, a package next to one
\* without targets, and the same package named twice
PkgPathConfigs ==
    { <<"parser">>, <<"docs">>, <<"stringutils", "mathutils">>,
      <<"stringutils", "docs">>, <<"stringutils", "stringutils">> }

Workers == 1..MaxWorkers

\* the values of cfg.SyncFrequency the controller model starts from, in ticks:
\* no time at all, less than a second, two seconds
SyncChoices == { 0, 1, 2 * TicksPerSecond }

Range(s) == { s[i] : i \in 1..Len(s) }

\* Task{Package, Target}
Task(pkg, target) == [Package |-> pkg, Target |-> target]

NoTask == [Package |-> "", Target |-> ""]

AllTasks ==
    { Task(p, t) : p \in Packages,
                   t \in UNION { Range(RepoTargets(q)) : q \in Packages } }

(***************************************************************************)
(* CalculateFuzzSeconds: syncFrequency.Seconds() * numWorkers /            *)
(* totalTargets, a float64.  The quotient is kept exact as a fraction of   *)
(* integers (float64 is exact on the integers of the model, and division   *)
(* is correctly rounded, so sign and integer part are those of the exact   *)
(* quotient).                                                              *)
(***************************************************************************)
CalculateFuzzSecondsNoDivide(syncFrequency, numWorkers, totalTargets) ==
    [num |-> syncFrequency * numWorkers, den |-> TicksPerSecond]

CalculateFuzzSecondsPerWorker(syncFrequency, numWorkers, totalTargets) ==
    [num |-> syncFrequency, den |-> TicksPerSecond * totalTargets]

CalculateFuzzSeconds(syncFrequency, numWorkers, totalTargets) ==
    [num |-> syncFrequency * numWorkers, den |-> TicksPerSecond * totalTargets]

\* time.Duration(fuzzSeconds): conversion of a float64 to int64 truncates
\* toward zero
TruncRoundUp(q) == (q.num + q.den - 1) \div q.den

Trunc(q) ==
    IF q.num >= 0 THEN q.num \div q.den ELSE -((-q.num) \div q.den)

\* fuzzSeconds <= 0
NonPositive(q) == q.num <= 0

\* perTargetTimeout := time.Duration(fuzzSeconds) * time.Second, in ticks
PerTargetTimeout(q) == Trunc(q) * TicksPerSecond


(***************************************************************************)
(* State.                                                                  *)
(***************************************************************************)
VARIABLES
    cfg,            \* Config: NumWorkers, SyncFrequency (ticks), FuzzPkgsPath
    ctxDone,        \* the top-level context (ctx) is cancelled
    process,        \* "running", "exit0", "exit1" (os.Exit) or "returned"
    exitWhy,        \* the call site of the os.Exit taken, "" before
    ctrlPc,         \* startFuzzCycles: position of the controller
    listIdx,        \* listPkgsFuzzTargets: index into cfg.FuzzPkgsPath
    pkgTargets,     \* listPkgsFuzzTargets: pkgToTargets
    totalTargets,   \* listPkgsFuzzTargets: totalTargets
    cycleCancelled, \* cancelCycle() of the current schedulerCtx was called
    doneChan,       \* doneChan is closed
    timer,          \* the channel of time.After: "off", "armed"
    schedPc,        \* scheduleFuzzing: position of the scheduler goroutine
    perTargetTimeout, \* scheduleFuzzing: perTargetTimeout, in ticks
    tasks,          \* TaskQueue.tasks
    mu,             \* TaskQueue.mu: 0 when unlocked, else the holder
    groupCancelled, \* errgroup: goCtx was cancelled by a worker's error
    groupErr,       \* errgroup: the first error a worker returned, "" if none
    worker,         \* runWorker / executeFuzzTarget: one record per worker
    live,           \* number of running fuzz subprocesses started by a worker
    wsExists,       \* the workspace root (parent of cfg.ProjectDir) exists
    enqueued,       \* the Tasks enqueued in the current cycle, in order
    dequeueCount,   \* per Task: times Dequeue returned it in this cycle
    spawnCount,     \* per Task: fuzz subprocesses started for it in this cycle
    lastExit,       \* the select case the last finished cycle left by
    uploadAfterSignal, \* zipUploadCorpus was entered with ctx already cancelled
    \* the corpus of a cycle, as data
    store,          \* the object under CorpusKey in the bucket, or NoObject
    corpusTree,     \* the files under cfg.CorpusDir, or Absent
    cyc,            \* the cycle's step, downloadObject's empty, the local
                    \* corpus.zip and the outcome of zipUploadCorpus
    \* the output parser and the crash reporter
    srcPath,        \* cfg.ProjectSrcPath, as url.Parse reads it
    feed,           \* the runs to come: package, target and output stream
    fp,             \* the fuzzOutputProcessor of the run and its locals
    resultsDir,     \* cfg.FuzzResultsPath: the directory and its files
    forge,          \* the repository's issues and the createIssue calls
    reported,       \* the crashes handed to a reporting path so far
    \* the repository URL in the log
    rawURL,         \* cfg.ProjectSrcPath as the string the user gave
    logged,         \* the repo_url attribute startFuzzCycles logged
    \* one call of executeFuzzTarget
    ex,             \* the call: its position, cmd, pipe, processor, channel
    disk            \* the files under cfg.ProjectDir and cfg.CorpusDir

\* the variables of the controller, the scheduler and the workers
controlVars ==
    << cfg, ctxDone, process, exitWhy, ctrlPc, listIdx, pkgTargets,
       totalTargets, cycleCancelled, doneChan, timer, schedPc,
       perTargetTimeout, tasks, mu, groupCancelled, groupErr, worker, live,
       wsExists, enqueued, dequeueCount, spawnCount, lastExit,
       uploadAfterSignal >>

\* the variables of the corpus
corpusVars == << store, corpusTree, cyc >>

\* the variables that hold data of the cycle's files and reports
\* the variables of the parser and the reporter
reportVars == << srcPath, feed, fp, resultsDir, forge, reported >>

\* the variables of the log line of the clone
urlVars == << rawURL, logged >>

\* the variables of one call of executeFuzzTarget
runVars == << ex, disk >>

dataVars == << corpusVars, reportVars, urlVars, runVars >>

\* what the corpus model, the report model, and the model of one call of
\* executeFuzzTarget leave alone
offCorpus == << controlVars, reportVars, urlVars, runVars >>

offReport == << controlVars, corpusVars, urlVars, runVars >>

offRun == << controlVars, corpusVars, reportVars, urlVars >>

vars == << controlVars, dataVars >>

\* no object under CorpusKey; no directory at cfg.CorpusDir; no corpus.zip
NoObject == [exists |-> FALSE, entries |-> {}]

Absent == [exists |-> FALSE, entries |-> {}]

NoZip == [exists |-> FALSE, entries |-> {}]

\* an archive, or a directory, that exists and holds the files fs
Holding(fs) == [exists |-> TRUE, entries |-> fs]

\* the corpus variables while another model runs
CorpusIdle ==
    /\ store = NoObject
    /\ corpusTree = Absent
    /\ cyc = [pc |-> "idle", n |-> 0, empty |-> FALSE, zip |-> NoZip,
              published |-> "none", saved |-> FALSE, umask |-> {}]

\* url.Parse of a repository URL: whether it parses, the userinfo and the
\* parts of strings.Split(strings.TrimSuffix(u.Path, ".git"), "/")
URL(parses, user, hasPassword, password, parts) ==
    [ parses |-> parses, user |-> user, hasPassword |-> hasPassword,
      password |-> password, parts |-> parts ]

\* the values of cfg.ProjectSrcPath: https://host/owner/repo.git, the same
\* with a user name only, with user:token, user:token with the path /owner,
\* and git@host:owner/repo.git, which url.Parse rejects
ProjectSrcPaths ==
    { URL(TRUE, "", FALSE, "", <<"", "owner", "repo">>),
      URL(TRUE, "git", FALSE, "", <<"", "owner", "repo">>),
      URL(TRUE, "bot", TRUE, "ghp_token", <<"", "owner", "repo">>),
      URL(TRUE, "bot", TRUE, "ghp_token", <<"", "owner">>),
      URL(FALSE, "", FALSE, "", <<>>) }

\* errorInput while no failure-input line has matched: the empty string
NoInput == [kind |-> "", target |-> "", id |-> "", data |-> <<>>]

\* no report body was formatted
NoBody == [log |-> <<>>, input |-> NoInput, mark |-> ""]

\* no signature was computed
NoHash == [pkg |-> <<>>, target |-> "", data |-> <<>>]

\* the locals of processFuzzStream and processFailureLines
Processor(pc) ==
    [ pc |-> pc, pos |-> 1, errorLog |-> <<>>, errorData |-> <<>>,
      errorInput |-> NoInput, fs |-> {}, ret |-> "none", calls |-> 0,
      hash |-> NoHash, body |-> NoBody, out |-> "none" ]

\* the results directory before the first report: not yet created
NoResults == [exists |-> FALSE, files |-> {}, created |-> <<>>]

\* the forge before the first report: no issue
NoIssues == [issues |-> {}, created |-> <<>>]

\* the parser and reporter variables while another model runs
ReportIdle ==
    /\ srcPath = URL(TRUE, "", FALSE, "", <<"", "owner", "repo">>)
    /\ feed = <<>>
    /\ fp = Processor("idle")
    /\ resultsDir = NoResults
    /\ forge = NoIssues
    /\ reported = {}

\* a URL string in its parts: scheme "://" userinfo "@" host path, the
\* userinfo being <<>>, <<name>> or <<name, ":", password>>
URLString(scheme, userinfo, host, path) ==
    [ scheme |-> scheme, userinfo |-> userinfo, host |-> host,
      path |-> path ]

\* nothing was logged yet
NotLogged == [done |-> FALSE, url |-> URLString("", <<>>, "", "")]

\* the log variables while another model runs
URLIdle ==
    /\ rawURL = URLString("https", <<>>, "github.com", "/OWNER/REPO.git")
    /\ logged = NotLogged

\* executeFuzzTarget at a position: the Task, the script of the subprocess
\* (the lines it prints when left alone), what it has written to the pipe,
\* the state of cmd and of taskCtx, the processor, the values sent on and
\* received from fuzzTargetFailingChan, and the events of the call in order
Exec(pc) ==
    [ pc |-> pc, pkg |-> <<>>, target |-> "", script |-> <<>>,
      written |-> 0, cmd |-> "none", ctxDone |-> FALSE,
      parser |-> "none", pos |-> 1, input |-> "none",
      chan |-> <<>>, sent |-> 0, received |-> 0,
      isFailing |-> FALSE, waitErr |-> FALSE, ret |-> "",
      events |-> <<>> ]

\* the variables of one call while another model runs
RunIdle ==
    /\ ex = Exec("idle")
    /\ disk = {}

\* the data variables while the controller model runs
DataIdle == CorpusIdle /\ ReportIdle /\ URLIdle /\ RunIdle

\* a worker that runs no Task
IdleWorker(pc) ==
    [ pc |-> pc, task |-> NoTask, t |-> NoTask, cmd |-> "none",
      expired |-> FALSE, killed |-> FALSE, isFailing |-> FALSE,
      waitErr |-> FALSE, ctxErr |-> FALSE, cycleErr |-> FALSE,
      rmOK |-> TRUE, ran |-> FALSE, ret |-> "" ]

NoCount == [ t \in AllTasks |-> 0 ]

Init ==
    /\ cfg \in [ NumWorkers : 1..MaxWorkers,
                 SyncFrequency : SyncChoices,
                 FuzzPkgsPath : PkgPathConfigs ]
    /\ ctxDone = FALSE
    /\ process = "running"
    /\ exitWhy = ""
    /\ ctrlPc = "clone"
    /\ listIdx = 1
    /\ pkgTargets = <<>>
    /\ totalTargets = 0
    /\ cycleCancelled = FALSE
    /\ doneChan = FALSE
    /\ timer = "off"
    /\ schedPc = "none"
    /\ perTargetTimeout = 0
    /\ tasks = <<>>
    /\ mu = 0
    /\ groupCancelled = FALSE
    /\ groupErr = ""
    /\ worker = [ w \in Workers |-> IdleWorker("idle") ]
    /\ live = [ w \in Workers |-> 0 ]
    /\ wsExists = TRUE      \* loadConfig: os.MkdirTemp
    /\ enqueued = <<>>
    /\ dequeueCount = NoCount
    /\ spawnCount = NoCount
    /\ lastExit = "none"
    /\ uploadAfterSignal = FALSE
    /\ DataIdle

(***************************************************************************)
(* Contexts.  schedulerCtx is derived from ctx, goCtx (errgroup) from      *)
(* schedulerCtx, taskCtx (WithTimeout) from goCtx.                         *)
(***************************************************************************)
SchedulerCtxDone == ctxDone \/ cycleCancelled

GoCtxDone == SchedulerCtxDone \/ groupCancelled

\* a task scope shared by the workers: one Task's timeout ends them all
TaskCtxDoneShared(w) == GoCtxDone \/ \E v \in Workers : worker[v].expired

TaskCtxDone(w) == GoCtxDone \/ worker[w].expired

Running == process = "running"

\* os.Exit(code) at a call site
OsExit(code, why) ==
    /\ process' = (IF code = 0 THEN "exit0" ELSE "exit1")
    /\ exitWhy' = why


\* a cleanup that leaves the workspace in place
cleanupWorkspaceSkipped == wsExists' = wsExists

\* cleanupWorkspace: os.RemoveAll of the workspace root
cleanupWorkspace == wsExists' = FALSE

\* the state of a cycle that has not started its scheduler
NoCycle ==
    /\ listIdx' = 1
    /\ pkgTargets' = <<>>
    /\ totalTargets' = 0
    /\ schedPc' = "none"
    /\ perTargetTimeout' = 0
    /\ tasks' = <<>>
    /\ mu' = 0
    /\ groupCancelled' = FALSE
    /\ groupErr' = ""
    /\ worker' = [ w \in Workers |-> IdleWorker("idle") ]
    /\ enqueued' = <<>>
    /\ dequeueCount' = NoCount
    /\ spawnCount' = NoCount
    /\ timer' = "off"

cycleVars ==
    << listIdx, pkgTargets, totalTargets, schedPc, perTargetTimeout, tasks,
       mu, groupCancelled, groupErr, worker, enqueued, dequeueCount,
       spawnCount, timer >>

(***************************************************************************)
(* The top-level cancellation signal: ctx is cancelled.  A controller      *)
(* parked in the select is woken by the first channel that becomes ready,  *)
(* and takes that case.                                                    *)
(***************************************************************************)
GlobalCancel ==
    /\ Running
    /\ ~ctxDone
    /\ ctxDone' = TRUE
    /\ ctrlPc' = (IF ctrlPc = "parked" THEN "cancel" ELSE ctrlPc)
    /\ UNCHANGED << dataVars, cfg, process, exitWhy, cycleCancelled, doneChan, live,
                    wsExists, lastExit, uploadAfterSignal, cycleVars >>

(***************************************************************************)
(* startFuzzCycles, up to the launch of the scheduler.                     *)
(***************************************************************************)
\* git.PlainCloneContext succeeds
CloneOK ==
    /\ Running
    /\ ctrlPc = "clone"
    /\ ~ctxDone
    /\ wsExists' = TRUE
    /\ lastExit' = "none"
    /\ uploadAfterSignal' = FALSE
    /\ ctrlPc' = "s3client"
    /\ NoCycle
    /\ UNCHANGED << dataVars, cfg, ctxDone, process, exitWhy, cycleCancelled, doneChan,
                    live >>

\* git.PlainCloneContext fails (always, once ctx is cancelled): cleanup, exit
CloneFail ==
    /\ Running
    /\ ctrlPc = "clone"
    /\ cleanupWorkspace
    /\ OsExit(1, IF ctxDone THEN "clone:cancelled" ELSE "clone")
    /\ lastExit' = "none"
    /\ UNCHANGED << dataVars, cfg, ctxDone, ctrlPc, cycleCancelled, doneChan, live,
                    uploadAfterSignal, cycleVars >>

\* createS3Client succeeds
CreateS3ClientOK ==
    /\ Running
    /\ ctrlPc = "s3client"
    /\ ctrlPc' = "download"
    /\ UNCHANGED << dataVars, cfg, ctxDone, process, exitWhy, cycleCancelled, doneChan,
                    live, wsExists, lastExit, uploadAfterSignal, cycleVars >>

\* createS3Client fails: cleanup, exit
CreateS3ClientFail ==
    /\ Running
    /\ ctrlPc = "s3client"
    /\ cleanupWorkspace
    /\ OsExit(1, "s3client")
    /\ UNCHANGED << dataVars, cfg, ctxDone, ctrlPc, cycleCancelled, doneChan, live,
                    lastExit, uploadAfterSignal, cycleVars >>

\* downloadObject returns (empty, nil); unzip is skipped when empty
DownloadOK ==
    /\ Running
    /\ ctrlPc = "download"
    /\ ~ctxDone
    /\ \E empty \in BOOLEAN : ctrlPc' = (IF empty THEN "list" ELSE "unzip")
    /\ UNCHANGED << dataVars, cfg, ctxDone, process, exitWhy, cycleCancelled, doneChan,
                    live, wsExists, lastExit, uploadAfterSignal, cycleVars >>

\* downloadObject returns an error other than NoSuchKey (always, once ctx is
\* cancelled): cleanup, exit
DownloadFail ==
    /\ Running
    /\ ctrlPc = "download"
    /\ cleanupWorkspace
    /\ OsExit(1, IF ctxDone THEN "download:cancelled" ELSE "download")
    /\ UNCHANGED << dataVars, cfg, ctxDone, ctrlPc, cycleCancelled, doneChan, live,
                    lastExit, uploadAfterSignal, cycleVars >>

UnzipOK ==
    /\ Running
    /\ ctrlPc = "unzip"
    /\ ctrlPc' = "list"
    /\ UNCHANGED << dataVars, cfg, ctxDone, process, exitWhy, cycleCancelled, doneChan,
                    live, wsExists, lastExit, uploadAfterSignal, cycleVars >>

UnzipFail ==
    /\ Running
    /\ ctrlPc = "unzip"
    /\ cleanupWorkspace
    /\ OsExit(1, "unzip")
    /\ UNCHANGED << dataVars, cfg, ctxDone, ctrlPc, cycleCancelled, doneChan, live,
                    lastExit, uploadAfterSignal, cycleVars >>

\* the targets one run of "go test -list=^Fuzz" yields: all of the package's
\* targets; under a cancelled ctx the command is killed and may have printed
\* nothing, and its error is ignored
ListedTargets(pkg) ==
    IF ctxDone THEN { <<>>, RepoTargets(pkg) } ELSE { RepoTargets(pkg) }

\* listPkgsFuzzTargets: one turn of the loop over cfg.FuzzPkgsPath
ListPackageOK ==
    /\ Running
    /\ ctrlPc = "list"
    /\ listIdx <= Len(cfg.FuzzPkgsPath)
    /\ LET pkgPath == cfg.FuzzPkgsPath[listIdx] IN
       \E targets \in ListedTargets(pkgPath) :
          /\ pkgTargets' = (pkgPath :> targets) @@ pkgTargets
          /\ totalTargets' = totalTargets + Len(targets)
    /\ listIdx' = listIdx + 1
    /\ UNCHANGED << dataVars, cfg, ctxDone, process, exitWhy, ctrlPc, cycleCancelled,
                    doneChan, live, wsExists, lastExit, uploadAfterSignal,
                    schedPc, perTargetTimeout, tasks, mu, groupCancelled,
                    groupErr, worker, enqueued, dequeueCount, spawnCount,
                    timer >>

\* listFuzzTargets: cmd.Run fails and ctx is live: cleanup, exit
ListPackageFail ==
    /\ Running
    /\ ctrlPc = "list"
    /\ listIdx <= Len(cfg.FuzzPkgsPath)
    /\ ~ctxDone
    /\ cleanupWorkspace
    /\ OsExit(1, "list")
    /\ UNCHANGED << dataVars, cfg, ctxDone, ctrlPc, cycleCancelled, doneChan, live,
                    lastExit, uploadAfterSignal, cycleVars >>

\* an exit taken as soon as some listed package has no target
NoTargetsInSomePackage ==
    /\ Running
    /\ ctrlPc = "list"
    /\ listIdx > Len(cfg.FuzzPkgsPath)
    /\ \E p \in DOMAIN pkgTargets : pkgTargets[p] = <<>>
    /\ cleanupWorkspace
    /\ OsExit(0, "notargets")
    /\ UNCHANGED << dataVars, cfg, ctxDone, ctrlPc, cycleCancelled, doneChan, live,
                    lastExit, uploadAfterSignal, cycleVars >>

\* totalTargets == 0: cleanup, os.Exit(0)
NoTargets ==
    /\ Running
    /\ ctrlPc = "list"
    /\ listIdx > Len(cfg.FuzzPkgsPath)
    /\ totalTargets = 0
    /\ cleanupWorkspace
    /\ OsExit(0, "notargets")
    /\ UNCHANGED << dataVars, cfg, ctxDone, ctrlPc, cycleCancelled, doneChan, live,
                    lastExit, uploadAfterSignal, cycleVars >>

\* context.WithCancel(ctx), make(doneChan), go scheduleFuzzing(...)
StartScheduler ==
    /\ Running
    /\ ctrlPc = "list"
    /\ listIdx > Len(cfg.FuzzPkgsPath)
    /\ totalTargets # 0
    /\ cycleCancelled' = FALSE
    /\ doneChan' = FALSE
    /\ schedPc' = "start"
    /\ ctrlPc' = "select"
    /\ UNCHANGED << dataVars, cfg, ctxDone, process, exitWhy, live, wsExists, lastExit,
                    uploadAfterSignal, listIdx, pkgTargets, totalTargets,
                    perTargetTimeout, tasks, mu, groupCancelled, groupErr,
                    worker, enqueued, dequeueCount, spawnCount, timer >>


(***************************************************************************)
(* startFuzzCycles: the select over doneChan, time.After(cycleDuration)    *)
(* and ctx.Done().  When the select is reached, a case that is ready is    *)
(* taken (any of them when several are); otherwise the controller parks    *)
(* and the first channel to become ready decides the case.  The timer is   *)
(* created by the select itself, so it is never ready on entry.            *)
(***************************************************************************)
SelectDoneChan ==
    /\ Running
    /\ ctrlPc = "select"
    /\ doneChan
    /\ ctrlPc' = "drain"
    /\ UNCHANGED << dataVars, cfg, ctxDone, process, exitWhy, cycleCancelled, doneChan,
                    live, wsExists, lastExit, uploadAfterSignal, cycleVars >>

SelectCtxDone ==
    /\ Running
    /\ ctrlPc = "select"
    /\ ctxDone
    /\ ctrlPc' = "cancel"
    /\ UNCHANGED << dataVars, cfg, ctxDone, process, exitWhy, cycleCancelled, doneChan,
                    live, wsExists, lastExit, uploadAfterSignal, cycleVars >>

SelectPark ==
    /\ Running
    /\ ctrlPc = "select"
    /\ ~doneChan
    /\ ~ctxDone
    /\ ctrlPc' = "parked"
    /\ timer' = "armed"
    /\ UNCHANGED << dataVars, cfg, ctxDone, process, exitWhy, cycleCancelled, doneChan,
                    live, wsExists, lastExit, uploadAfterSignal, listIdx,
                    pkgTargets, totalTargets, schedPc, perTargetTimeout,
                    tasks, mu, groupCancelled, groupErr, worker, enqueued,
                    dequeueCount, spawnCount >>

\* cycleDuration has elapsed: the timer's channel becomes ready
TimerFires ==
    /\ Running
    /\ ctrlPc = "parked"
    /\ timer = "armed"
    /\ timer' = "off"
    /\ ctrlPc' = "deadline"
    /\ UNCHANGED << dataVars, cfg, ctxDone, process, exitWhy, cycleCancelled, doneChan,
                    live, wsExists, lastExit, uploadAfterSignal, listIdx,
                    pkgTargets, totalTargets, schedPc, perTargetTimeout,
                    tasks, mu, groupCancelled, groupErr, worker, enqueued,
                    dequeueCount, spawnCount >>

\* zipUploadCorpus is entered: zipDir walks the corpus directory
ZipUploadStart(from, to) ==
    /\ Running
    /\ ctrlPc = from
    /\ ctrlPc' = to
    /\ uploadAfterSignal' = ctxDone
    /\ UNCHANGED << dataVars, cfg, ctxDone, process, exitWhy, cycleCancelled, doneChan,
                    live, wsExists, lastExit, cycleVars >>

\* zipUploadCorpus returns: uploadObject has run (or zipping failed)
ZipUploadReturn(from, to) ==
    /\ Running
    /\ ctrlPc = from
    /\ ctrlPc' = to
    /\ UNCHANGED << dataVars, cfg, ctxDone, process, exitWhy, cycleCancelled, doneChan,
                    live, wsExists, lastExit, uploadAfterSignal, cycleVars >>

\* cancelCycle()
CancelCycle(from, to) ==
    /\ Running
    /\ ctrlPc = from
    /\ ctrlPc' = to
    /\ cycleCancelled' = TRUE
    /\ UNCHANGED << dataVars, cfg, ctxDone, process, exitWhy, doneChan, live, wsExists,
                    lastExit, uploadAfterSignal, cycleVars >>

\* <-doneChan
ReceiveDoneNoWait == TRUE

ReceiveDone == doneChan

\* case <-doneChan: upload, cancelCycle, cleanupWorkspace, next cycle
DrainUploadStart == ZipUploadStart("drain", "drain_upload")

DrainUploadReturn == ZipUploadReturn("drain_upload", "drain_finish")

DrainFinish ==
    /\ Running
    /\ ctrlPc = "drain_finish"
    /\ cycleCancelled' = TRUE
    /\ cleanupWorkspace
    /\ lastExit' = "drain"
    /\ ctrlPc' = "clone"
    /\ UNCHANGED << dataVars, cfg, ctxDone, process, exitWhy, doneChan, live,
                    uploadAfterSignal, cycleVars >>

\* case <-time.After(cycleDuration): upload, cancelCycle, <-doneChan,
\* cleanupWorkspace, next cycle
DeadlineUploadStart == ZipUploadStart("deadline", "deadline_upload")

DeadlineUploadReturn == ZipUploadReturn("deadline_upload", "deadline_cancel")

DeadlineCancelCycle == CancelCycle("deadline_cancel", "deadline_wait")

DeadlineFinish ==
    /\ Running
    /\ ctrlPc = "deadline_wait"
    /\ ReceiveDone
    /\ cleanupWorkspace
    /\ lastExit' = "deadline"
    /\ ctrlPc' = "clone"
    /\ UNCHANGED << dataVars, cfg, ctxDone, process, exitWhy, cycleCancelled, doneChan,
                    live, uploadAfterSignal, cycleVars >>

\* case <-ctx.Done(): cancelCycle, <-doneChan, cleanupWorkspace, return
ShutdownCancelCycle == CancelCycle("cancel", "cancel_wait")

ShutdownFinish ==
    /\ Running
    /\ ctrlPc = "cancel_wait"
    /\ ReceiveDone
    /\ cleanupWorkspace
    /\ lastExit' = "cancel"
    /\ ctrlPc' = "returned"
    /\ process' = "returned"
    /\ UNCHANGED << dataVars, cfg, ctxDone, exitWhy, cycleCancelled, doneChan, live,
                    uploadAfterSignal, cycleVars >>


(***************************************************************************)
(* scheduleFuzzing.                                                        *)
(***************************************************************************)
Perms(S) ==
    { s \in [ 1..Cardinality(S) -> S ] :
        \A i, j \in 1..Cardinality(S) : i # j => s[i] # s[j] }

RECURSIVE Flatten(_, _)
Flatten(order, m) ==
    IF order = <<>> THEN <<>>
    ELSE [ i \in 1..Len(m[order[1]]) |-> Task(order[1], m[order[1]][i]) ]
         \o Flatten(Tail(order), m)

\* the loops "for pkgPath := range pkgTargets { for _, target := range ... }":
\* a Go map is ranged over in an unspecified order
EnqueueOrders(m) == { Flatten(order, m) : order \in Perms(DOMAIN m) }

StartedWorkers == 1..cfg.NumWorkers

\* fuzzSeconds <= 0: cleanupWorkspace, os.Exit(1)
SchedInvalidDuration ==
    /\ Running
    /\ schedPc = "start"
    /\ NonPositive(CalculateFuzzSeconds(cfg.SyncFrequency, cfg.NumWorkers,
                                        totalTargets))
    /\ cleanupWorkspace
    /\ OsExit(1, "budget")
    /\ UNCHANGED << dataVars, cfg, ctxDone, ctrlPc, cycleCancelled, doneChan, live,
                    lastExit, uploadAfterSignal, cycleVars >>

\* the budget is positive: fill the queue, start cfg.NumWorkers workers
SchedStartWorkers ==
    /\ Running
    /\ schedPc = "start"
    /\ LET fuzzSeconds == CalculateFuzzSeconds(cfg.SyncFrequency,
                              cfg.NumWorkers, totalTargets) IN
       /\ ~NonPositive(fuzzSeconds)
       /\ perTargetTimeout' = PerTargetTimeout(fuzzSeconds)
    /\ \E q \in EnqueueOrders(pkgTargets) :
          /\ tasks' = q
          /\ enqueued' = q
    /\ worker' = [ w \in Workers |->
                     IF w \in StartedWorkers THEN IdleWorker("dequeue")
                                             ELSE IdleWorker("idle") ]
    /\ schedPc' = "wait"
    /\ UNCHANGED << dataVars, cfg, ctxDone, process, exitWhy, ctrlPc, cycleCancelled,
                    doneChan, live, wsExists, lastExit, uploadAfterSignal,
                    listIdx, pkgTargets, totalTargets, mu, groupCancelled,
                    groupErr, dequeueCount, spawnCount, timer >>

\* g.Wait() as a wait for the first goroutine to return only
AllReturnedFirst == \E w \in StartedWorkers : worker[w].pc = "done"

\* g.Wait(): every goroutine of the errgroup has returned
AllReturned == \A w \in StartedWorkers : worker[w].pc = "done"

\* g.Wait() returns nil; the deferred close(doneChan) runs
SchedWaitOK ==
    /\ Running
    /\ schedPc = "wait"
    /\ AllReturned
    /\ groupErr = ""
    /\ schedPc' = "done"
    /\ doneChan' = TRUE
    /\ ctrlPc' = (IF ctrlPc = "parked" THEN "drain" ELSE ctrlPc)
    /\ UNCHANGED << dataVars, cfg, ctxDone, process, exitWhy, cycleCancelled, live,
                    wsExists, lastExit, uploadAfterSignal, listIdx,
                    pkgTargets, totalTargets, perTargetTimeout, tasks, mu,
                    groupCancelled, groupErr, worker, enqueued, dequeueCount,
                    spawnCount, timer >>

\* g.Wait() returns the first error of a worker
SchedWaitErr ==
    /\ Running
    /\ schedPc = "wait"
    /\ AllReturned
    /\ groupErr # ""
    /\ schedPc' = "failed"
    /\ UNCHANGED << dataVars, cfg, ctxDone, process, exitWhy, ctrlPc, cycleCancelled,
                    doneChan, live, wsExists, lastExit, uploadAfterSignal,
                    listIdx, pkgTargets, totalTargets, perTargetTimeout,
                    tasks, mu, groupCancelled, groupErr, worker, enqueued,
                    dequeueCount, spawnCount, timer >>

\* "Fuzzing process failed": cleanupWorkspace, os.Exit(1); doneChan stays open
SchedFailExit ==
    /\ Running
    /\ schedPc = "failed"
    /\ cleanupWorkspace
    /\ OsExit(1, "worker")
    /\ UNCHANGED << dataVars, cfg, ctxDone, ctrlPc, cycleCancelled, doneChan, live,
                    lastExit, uploadAfterSignal, cycleVars >>


(***************************************************************************)
(* TaskQueue.Dequeue and runWorker.                                        *)
(***************************************************************************)
\* what no step of a worker changes
workerFrame ==
    << dataVars, cfg, ctxDone, process, exitWhy, ctrlPc, cycleCancelled, doneChan,
       timer, lastExit, uploadAfterSignal, listIdx, pkgTargets, totalTargets,
       schedPc, perTargetTimeout, enqueued >>

\* q.mu.Lock() can be taken
MuFreeNoLock == TRUE

MuFree == mu = 0

\* q.tasks[:len(q.tasks)-1]: the slice that drops the newest Task
RestButLast(q) == IF q = <<>> THEN <<>> ELSE SubSeq(q, 1, Len(q) - 1)

\* q.tasks[1:]
Rest(q) == IF q = <<>> THEN <<>> ELSE Tail(q)

\* Dequeue: q.mu.Lock(); len(q.tasks) == 0: unlock, return (Task{}, false);
\* runWorker returns nil
DequeueEmpty(w) ==
    /\ Running
    /\ worker[w].pc = "dequeue"
    /\ MuFree
    /\ Len(tasks) = 0
    /\ mu' = 0
    /\ worker' = [worker EXCEPT ![w] = IdleWorker("done")]
    /\ UNCHANGED << workerFrame, tasks, dequeueCount, spawnCount,
                    groupCancelled, groupErr, live, wsExists >>

\* Dequeue: q.mu.Lock(); t := q.tasks[0]
DequeueRead(w) ==
    /\ Running
    /\ worker[w].pc = "dequeue"
    /\ MuFree
    /\ Len(tasks) # 0
    /\ mu' = w
    /\ worker' = [worker EXCEPT ![w].t = tasks[1], ![w].pc = "slice"]
    /\ UNCHANGED << workerFrame, tasks, dequeueCount, spawnCount,
                    groupCancelled, groupErr, live, wsExists >>

\* Dequeue: q.tasks = q.tasks[1:]; unlock; return (t, true)
DequeueSlice(w) ==
    /\ Running
    /\ worker[w].pc = "slice"
    /\ tasks' = Rest(tasks)
    /\ mu' = 0
    /\ dequeueCount' = [dequeueCount EXCEPT ![worker[w].t] = @ + 1]
    /\ worker' = [worker EXCEPT ![w].task = worker[w].t, ![w].t = NoTask,
                                ![w].pc = "start"]
    /\ UNCHANGED << workerFrame, spawnCount, groupCancelled, groupErr, live,
                    wsExists >>

(***************************************************************************)
(* executeFuzzTarget, called with taskCtx = WithTimeout(goCtx,             *)
(* taskTimeout); a timeout that is not positive gives a context that is    *)
(* done from the start.                                                    *)
(***************************************************************************)
ExpiredAtStart == perTargetTimeout <= 0

\* cmd.Start succeeds: the fuzz subprocess runs
StartOK(w) ==
    /\ Running
    /\ worker[w].pc = "start"
    /\ ~GoCtxDone
    /\ ~ExpiredAtStart
    /\ worker' = [worker EXCEPT ![w].cmd = "running", ![w].pc = "stream"]
    /\ live' = [live EXCEPT ![w] = @ + 1]
    /\ spawnCount' = [spawnCount EXCEPT ![worker[w].task] = @ + 1]
    /\ UNCHANGED << workerFrame, tasks, mu, dequeueCount, groupCancelled,
                    groupErr, wsExists >>

\* cmd.Start fails because taskCtx is done: the error is passed over
\* (ctx.Err() != nil) and no subprocess exists
StartCancelled(w) ==
    /\ Running
    /\ worker[w].pc = "start"
    /\ GoCtxDone \/ ExpiredAtStart
    /\ worker' = [worker EXCEPT ![w].cmd = "notstarted",
                                ![w].expired = ExpiredAtStart,
                                ![w].pc = "stream"]
    /\ UNCHANGED << workerFrame, tasks, mu, dequeueCount, spawnCount,
                    groupCancelled, groupErr, live, wsExists >>

\* cmd.Start fails while taskCtx is live: "command start failed"
StartFail(w) ==
    /\ Running
    /\ worker[w].pc = "start"
    /\ ~GoCtxDone
    /\ ~ExpiredAtStart
    /\ worker' = [worker EXCEPT ![w].task = NoTask,
                                ![w].ret = "start_failed",
                                ![w].pc = "after"]
    /\ UNCHANGED << workerFrame, tasks, mu, dequeueCount, spawnCount,
                    groupCancelled, groupErr, live, wsExists >>

\* the per-task timeout elapses
TaskTimeout(w) ==
    /\ Running
    /\ worker[w].pc = "stream"
    /\ ~TaskCtxDone(w)
    /\ worker' = [worker EXCEPT ![w].expired = TRUE]
    /\ UNCHANGED << workerFrame, tasks, mu, dequeueCount, spawnCount,
                    groupCancelled, groupErr, live, wsExists >>

\* the fuzz subprocess ends on its own; it has written into the workspace
\* up to its end
ProcExit(w) ==
    /\ Running
    /\ worker[w].cmd = "running"
    /\ worker' = [worker EXCEPT ![w].cmd = "exited"]
    /\ live' = [live EXCEPT ![w] = @ - 1]
    /\ wsExists' = TRUE
    /\ UNCHANGED << workerFrame, tasks, mu, dequeueCount, spawnCount,
                    groupCancelled, groupErr >>

\* the subprocess is killed only once the process context is done
KillOnShutdownOnly(w) ==
    /\ Running
    /\ worker[w].cmd = "running"
    /\ ctxDone
    /\ worker' = [worker EXCEPT ![w].cmd = "killed"]
    /\ live' = [live EXCEPT ![w] = @ - 1]
    /\ wsExists' = TRUE
    /\ UNCHANGED << workerFrame, tasks, mu, dequeueCount, spawnCount,
                    groupCancelled, groupErr >>

\* exec.CommandContext kills the subprocess once taskCtx is done
Kill(w) ==
    /\ Running
    /\ worker[w].cmd = "running"
    /\ TaskCtxDone(w)
    /\ worker' = [worker EXCEPT ![w].cmd = "killed"]
    /\ live' = [live EXCEPT ![w] = @ - 1]
    /\ wsExists' = TRUE
    /\ UNCHANGED << workerFrame, tasks, mu, dequeueCount, spawnCount,
                    groupCancelled, groupErr >>

\* the subprocess of the worker's cmd has ended (or was never started): its
\* end of the pipe is closed and cmd.Wait can return
ProcessEndedNoWait(w) == TRUE

ProcessEnded(w) == worker[w].cmd # "running"

\* the value executeFuzzTarget returns after cmd.Wait: "fuzz execution
\* failed" when Wait failed, ctx.Err() is nil and the target did not fail;
\* "failing input cleanup failed" when the target failed and os.RemoveAll
\* of its testdata directory fails; nil otherwise
PostRunIgnoreCtx(waitErr, ctxErr, isFailing, rmOK) ==
    IF waitErr /\ ~isFailing THEN "exec_failed"
    ELSE IF isFailing /\ ~rmOK THEN "cleanup_failed"
    ELSE "nil"

PostRunFailOnCrash(waitErr, ctxErr, isFailing, rmOK) ==
    IF waitErr /\ ~ctxErr THEN "exec_failed"
    ELSE IF isFailing /\ ~rmOK THEN "cleanup_failed"
    ELSE "nil"

PostRun(waitErr, ctxErr, isFailing, rmOK) ==
    IF waitErr /\ ~ctxErr /\ ~isFailing THEN "exec_failed"
    ELSE IF isFailing /\ ~rmOK THEN "cleanup_failed"
    ELSE "nil"

\* the exit statuses cmd.Wait can report as an error: a subprocess that ended
\* on its own exited zero or non-zero, a killed one non-zero, and Wait fails
\* on a command that was never started
WaitErrs(cmd) == IF cmd = "exited" THEN BOOLEAN ELSE {TRUE}

\* whether the output the parser read can hold a "--- FAIL:" line
FailLines(cmd) == IF cmd \in {"exited", "killed"} THEN BOOLEAN ELSE {FALSE}

\* executeFuzzTarget from streamFuzzOutput to its return: processFuzzStream
\* reads the pipe up to EOF and sends whether a "--- FAIL:" line was seen;
\* err = cmd.Wait(); isFailing := <-fuzzTargetFailingChan; the checks
FinishRun(w) ==
    /\ Running
    /\ worker[w].pc = "stream"
    /\ ProcessEnded(w)
    /\ \E waitErr \in WaitErrs(worker[w].cmd),
          isFailing \in FailLines(worker[w].cmd) :
          \E rmOK \in (IF isFailing THEN BOOLEAN ELSE {TRUE}) :
             worker' = [worker EXCEPT
                          ![w].task = NoTask,
                          ![w].cmd = "none",
                          ![w].expired = FALSE,
                          ![w].killed = (worker[w].cmd = "killed"),
                          ![w].isFailing = isFailing,
                          ![w].waitErr = waitErr,
                          ![w].ctxErr = TaskCtxDone(w),
                          ![w].cycleErr = GoCtxDone,
                          ![w].rmOK = rmOK,
                          ![w].ran = (worker[w].cmd \in {"exited", "killed"}),
                          ![w].ret = PostRun(waitErr, TaskCtxDone(w),
                                             isFailing, rmOK),
                          ![w].pc = "after"]
    /\ UNCHANGED << workerFrame, tasks, mu, dequeueCount, spawnCount,
                    groupCancelled, groupErr, live, wsExists >>

\* runWorker: cancel(); err == nil: next turn of the loop
WorkerNext(w) ==
    /\ Running
    /\ worker[w].pc = "after"
    /\ worker[w].ret = "nil"
    /\ worker' = [worker EXCEPT ![w] = IdleWorker("dequeue")]
    /\ UNCHANGED << workerFrame, tasks, mu, dequeueCount, spawnCount,
                    groupCancelled, groupErr, live, wsExists >>

\* runWorker: cancel(); err != nil: return it; the errgroup keeps the first
\* error and cancels goCtx
WorkerError(w) ==
    /\ Running
    /\ worker[w].pc = "after"
    /\ worker[w].ret # "nil"
    /\ groupErr' = (IF groupErr = "" THEN worker[w].ret ELSE groupErr)
    /\ groupCancelled' = TRUE
    /\ worker' = [worker EXCEPT ![w] = IdleWorker("done")]
    /\ UNCHANGED << workerFrame, tasks, mu, dequeueCount, spawnCount, live,
                    wsExists >>

(***************************************************************************)
(* The system.                                                             *)
(***************************************************************************)
Next ==
    \/ GlobalCancel
    \/ CloneOK
    \/ CloneFail
    \/ CreateS3ClientOK
    \/ CreateS3ClientFail
    \/ DownloadOK
    \/ DownloadFail
    \/ UnzipOK
    \/ UnzipFail
    \/ ListPackageOK
    \/ ListPackageFail
    \/ NoTargets
    \/ StartScheduler
    \/ SelectDoneChan
    \/ SelectCtxDone
    \/ SelectPark
    \/ TimerFires
    \/ DrainUploadStart
    \/ DrainUploadReturn
    \/ DrainFinish
    \/ DeadlineUploadStart
    \/ DeadlineUploadReturn
    \/ DeadlineCancelCycle
    \/ DeadlineFinish
    \/ ShutdownCancelCycle
    \/ ShutdownFinish
    \/ SchedInvalidDuration
    \/ SchedStartWorkers
    \/ SchedWaitOK
    \/ SchedWaitErr
    \/ SchedFailExit
    \/ \E w \in Workers :
          \/ DequeueEmpty(w)
          \/ DequeueRead(w)
          \/ DequeueSlice(w)
          \/ StartOK(w)
          \/ StartCancelled(w)
          \/ StartFail(w)
          \/ TaskTimeout(w)
          \/ ProcExit(w)
          \/ Kill(w)
          \/ FinishRun(w)
          \/ WorkerNext(w)
          \/ WorkerError(w)

Spec == Init /\ [][Next]_vars


(***************************************************************************)
(* The budget on its own: scheduleFuzzing's computation of the per-target  *)
(* timeout for ranges of cfg.SyncFrequency, cfg.NumWorkers and             *)
(* totalTargets, and for the durations of TestCalculateFuzzSeconds         *)
(* (3h37m53s, 7 workers, 43 targets) and of the end-to-end test (15m, 3    *)
(* workers, 4 targets).                                                    *)
(***************************************************************************)
Seconds(n) == n * TicksPerSecond

BudgetCases ==
    { [ sync |-> s, workers |-> w, targets |-> t ] :
        s \in 0..MaxBudgetTicks, w \in 1..MaxBudgetWorkers,
        t \in 1..MaxBudgetTargets }
    \cup { [ sync |-> Seconds(13073), workers |-> 7, targets |-> 43 ],
           [ sync |-> Seconds(900), workers |-> 3, targets |-> 4 ] }

InitBudget ==
    /\ \E c \in BudgetCases :
          /\ cfg = [ NumWorkers |-> c.workers, SyncFrequency |-> c.sync,
                     FuzzPkgsPath |-> <<>> ]
          /\ totalTargets = c.targets
    /\ ctxDone = FALSE
    /\ process = "running"
    /\ exitWhy = ""
    /\ ctrlPc = "select"
    /\ listIdx = 1
    /\ pkgTargets = <<>>
    /\ cycleCancelled = FALSE
    /\ doneChan = FALSE
    /\ timer = "off"
    /\ schedPc = "start"
    /\ perTargetTimeout = 0
    /\ tasks = <<>>
    /\ mu = 0
    /\ groupCancelled = FALSE
    /\ groupErr = ""
    /\ worker = [ w \in Workers |-> IdleWorker("idle") ]
    /\ live = [ w \in Workers |-> 0 ]
    /\ wsExists = TRUE
    /\ enqueued = <<>>
    /\ dequeueCount = NoCount
    /\ spawnCount = NoCount
    /\ lastExit = "none"
    /\ uploadAfterSignal = FALSE
    /\ DataIdle

NextBudget ==
    \/ SchedInvalidDuration
    \/ SchedStartWorkers

SpecBudget == InitBudget /\ [][NextBudget]_vars


(***************************************************************************)
(* Properties of the queue, the cycle and the workers (under Spec).        *)
(***************************************************************************)
\* how often Task t stands in the sequence q
CountIn(q, t) == Cardinality({ i \in 1..Len(q) : q[i] = t })

NoWorkerActive == \A w \in Workers : worker[w].pc \in {"idle", "done"}

NoLiveSubprocess == \A w \in Workers : live[w] = 0

\* the worker has come back from executeFuzzTarget after cmd.Wait
Returned(w) ==
    /\ worker[w].pc = "after"
    /\ worker[w].ret \in {"nil", "exec_failed", "cleanup_failed"}

\* the run had a subprocess, it exited non-zero and no failure was reported
FailedRun(w) == worker[w].ran /\ worker[w].waitErr /\ ~worker[w].isFailing

\* C1: in a cycle every enqueued Task is returned by Dequeue at most once and
\* gets at most one fuzz subprocess, no two workers hold the same Task, and
\* the Tasks that were dequeued together with those still queued are exactly
\* the Tasks that were enqueued.
C1_DequeueOnce ==
    /\ \A t \in AllTasks :
          /\ dequeueCount[t] <= 1
          /\ spawnCount[t] <= dequeueCount[t]
          /\ dequeueCount[t] + CountIn(tasks, t) = CountIn(enqueued, t)
    /\ \A w1, w2 \in Workers :
          (w1 # w2 /\ worker[w1].task # NoTask)
             => worker[w1].task # worker[w2].task

\* two workers have emptied a queue of two Tasks and run one subprocess each
C1_Witness ==
    /\ Len(enqueued) = 2
    /\ tasks = <<>>
    /\ \A t \in Range(enqueued) : dequeueCount[t] = 1 /\ spawnCount[t] = 1
    /\ \A w \in Workers : worker[w].task # NoTask

\* C2: on the deadline path the corpus is zipped and uploaded only after the
\* sub-scope is cancelled and the workers have settled: no worker and no
\* subprocess runs while zipUploadCorpus does.
C2_UploadAfterWorkersSettled ==
    ctrlPc = "deadline_upload"
       => cycleCancelled /\ doneChan /\ NoWorkerActive /\ NoLiveSubprocess

\* C3: no upload of the corpus is begun in a cycle once the top-level
\* cancellation has fired.
C3_NoUploadAfterCancel == ~uploadAfterSignal

AtCleanupOrClone ==
    \/ ctrlPc \in {"clone", "drain_finish", "returned"}
    \/ ctrlPc \in {"deadline_wait", "cancel_wait"} /\ doneChan
    \/ schedPc = "failed"
    \/ ~Running

\* C5: each worker has at most one live fuzz subprocess, only started
\* workers have one, and none is live when the workspace is cleaned up or
\* the next clone starts.
C5_OneSubprocessPerWorker ==
    /\ \A w \in Workers : live[w] <= 1
    /\ \A w \in Workers \ StartedWorkers : live[w] = 0
    /\ AtCleanupOrClone => NoLiveSubprocess

\* every worker of the pool has its subprocess running
C5_Witness ==
    /\ cfg.NumWorkers = MaxWorkers
    /\ \A w \in Workers : live[w] = 1 /\ worker[w].cmd = "running"

\* C6: the process never takes the error exit because of the top-level
\* cancellation.
C6_CancelIsNotAnError ==
    process = "exit1" => exitWhy \notin {"clone:cancelled", "download:cancelled"}

\* C7 (as stated): a run whose subprocess exited non-zero with no failure
\* reported, in a cycle that is not cancelled, returns the infrastructure
\* error; a killed subprocess never does.
C7_ErrorUnlessCycleCancelled ==
    \A w \in Workers :
       Returned(w) =>
          /\ (FailedRun(w) /\ ~worker[w].cycleErr)
                => worker[w].ret = "exec_failed"
          /\ worker[w].killed => worker[w].ret # "exec_failed"

\* C7: a run whose subprocess exited non-zero with no failure reported
\* returns the infrastructure error exactly when the Task's own scope is
\* live (the cycle is not cancelled and the per-target timeout has not
\* expired); with that scope done the non-zero exit is passed over, and a
\* killed subprocess never gives the error.
C7_ErrorUnlessTaskScopeDone ==
    \A w \in Workers :
       Returned(w) =>
          /\ (FailedRun(w) /\ ~worker[w].ctxErr)
                => worker[w].ret = "exec_failed"
          /\ (FailedRun(w) /\ worker[w].ctxErr)
                => worker[w].ret = "nil"
          /\ worker[w].killed => worker[w].ret # "exec_failed"

\* a subprocess exited non-zero on its own, without a failure line, while
\* its scope was live
C7_Witness ==
    \E w \in Workers :
       /\ Returned(w)
       /\ FailedRun(w) /\ ~worker[w].ctxErr
       /\ ~worker[w].killed
       /\ worker[w].ret = "exec_failed"

\* C8 (as stated): a run with target_failed = true returns no error.
C8_CrashReturnsNil ==
    \A w \in Workers :
       (Returned(w) /\ worker[w].isFailing) => worker[w].ret = "nil"

\* the next step of a worker that came back from a run with target_failed =
\* true and a removed crash-input directory
CrashedWorkerGoesOn(w) ==
    (Returned(w) /\ worker[w].isFailing /\ worker[w].rmOK)
       => /\ worker[w].ret = "nil"
          /\ worker'[w] # worker[w]
                => /\ worker'[w].pc = "dequeue"
                   /\ groupCancelled' = groupCancelled
                   /\ groupErr' = groupErr
                   /\ process' = "running"

\* C8: a run with target_failed = true whose crash-input directory was
\* removed returns no error whatever the exit status: the worker goes on to
\* its next Dequeue, its siblings are not cancelled and the process does not
\* exit.
C8_CrashIsNotAnError == [][\A w \in Workers : CrashedWorkerGoesOn(w)]_vars

\* a subprocess exited non-zero after a failure line, the directory was
\* removed and nil came back
C8_Witness ==
    \E w \in Workers :
       /\ Returned(w)
       /\ worker[w].isFailing /\ worker[w].rmOK /\ worker[w].waitErr
       /\ ~worker[w].ctxErr
       /\ worker[w].ret = "nil"

(***************************************************************************)
(* Properties of the budget (under SpecBudget).                            *)
(***************************************************************************)
\* scheduleFuzzing has set the per-target timeout
BudgetSet == schedPc = "wait"

\* cycle_seconds x worker_count and per_target_seconds x total_targets, in
\* ticks
WorkerTime == cfg.SyncFrequency * cfg.NumWorkers

TargetTime == perTargetTimeout * totalTargets

C11_Is1728Seconds ==
    (BudgetSet /\ cfg.SyncFrequency = Seconds(13073) /\ cfg.NumWorkers = 7
       /\ totalTargets = 43)
       => LET q == CalculateFuzzSeconds(cfg.SyncFrequency, cfg.NumWorkers,
                                        totalTargets) IN
          /\ q.num = 1728 * q.den
          /\ perTargetTimeout = Seconds(35 * 60 + 28)

\* C11: CalculateFuzzSeconds(3h37m53s, 7, 43) is 91511/43 seconds, a value
\* between 2128 and 2129, and the timeout made of it is 2128 s = 35m28s.
C11_Is2128Seconds ==
    (BudgetSet /\ cfg.SyncFrequency = Seconds(13073) /\ cfg.NumWorkers = 7
       /\ totalTargets = 43)
       => LET q == CalculateFuzzSeconds(cfg.SyncFrequency, cfg.NumWorkers,
                                        totalTargets) IN
          /\ q.num * 43 = 91511 * q.den
          /\ 2128 * q.den < q.num /\ q.num < 2129 * q.den
          /\ perTargetTimeout = Seconds(35 * 60 + 28)

\* the quotient of the test's budget is no whole number of seconds
C11_Witness ==
    /\ BudgetSet
    /\ cfg.SyncFrequency = Seconds(13073) /\ cfg.NumWorkers = 7
    /\ totalTargets = 43
    /\ LET q == CalculateFuzzSeconds(cfg.SyncFrequency, cfg.NumWorkers,
                                     totalTargets) IN
       q.num % q.den # 0 /\ perTargetTimeout * q.den < q.num * TicksPerSecond

(***************************************************************************)
(* Properties of the start of the workers and of the deadline (under Spec).*)
(***************************************************************************)
\* the cycle's timer has fired and the controller is in the deadline case
DeadlinePassed ==
    ctrlPc \in {"deadline", "deadline_upload", "deadline_cancel",
                "deadline_wait"}

\* C12: workers are started only with a strictly positive per-target
\* timeout.
C12_WorkersNeedPositiveTimeout ==
    (\E w \in Workers : worker[w].pc # "idle") => perTargetTimeout > 0

\* C19: once the deadline has fired, no fuzz subprocess is started for a
\* Task of the cycle.
C19_NoSpawnAfterDeadline ==
    [][DeadlinePassed => spawnCount' = spawnCount]_vars


C26_NoDequeueAfterCancel ==
    [][(GoCtxDone /\ \A w \in Workers : worker[w].pc # "slice") =>
          /\ \A w \in Workers : worker'[w].pc # "slice"
          /\ Len(tasks') >= Len(tasks)]_vars

\* C27: the scopes are nested and a cancellation goes downwards only.  A
\* subprocess is started only under a live top-level context, a live cycle
\* scope and a live errgroup scope, and is killed only when one of them or
\* the timeout of its own Task is done; a step that cancels the cycle scope
\* or the errgroup scope leaves the top-level context as it is; a step in
\* which the timeout of a worker's Task expires changes nothing but that
\* worker's scope: the queue, the cycle scope, the errgroup and the siblings
\* with their subprocesses stay as they are; and a run that ended under an
\* expired Task scope never returns "fuzz execution failed".
C27_ScopesNested ==
    /\ [][\A w \in Workers :
            /\ (worker[w].cmd # "running" /\ worker'[w].cmd = "running") =>
                  ~(ctxDone \/ cycleCancelled \/ groupCancelled)
            /\ (worker[w].cmd = "running" /\ worker'[w].cmd = "killed") =>
                  (ctxDone \/ cycleCancelled \/ groupCancelled
                     \/ worker[w].expired)
            /\ (~worker[w].expired /\ worker'[w].expired) =>
                  /\ tasks' = tasks
                  /\ ctxDone' = ctxDone
                  /\ cycleCancelled' = cycleCancelled
                  /\ groupCancelled' = groupCancelled
                  /\ groupErr' = groupErr
                  /\ live' = live
                  /\ process' = process
                  /\ \A v \in Workers \ {w} : worker'[v] = worker[v]]_vars
    /\ [][(cycleCancelled' # cycleCancelled
             \/ groupCancelled' # groupCancelled) => ctxDone' = ctxDone]_vars
    /\ [](\A w \in Workers :
            (worker[w].pc = "after" /\ worker[w].ctxErr) =>
               worker[w].ret # "exec_failed")

\* the subprocess of one worker has been killed on its Task's timeout while
\* the sibling's subprocess runs on under live scopes
C27_Witness ==
    /\ Running
    /\ ~GoCtxDone
    /\ \E w, v \in Workers :
          /\ w # v
          /\ worker[w].cmd = "killed"
          /\ worker[w].expired
          /\ worker[v].cmd = "running"
          /\ ~worker[v].expired

\* C28: the queue is FIFO.  What is queued is always the rest of what was
\* enqueued; the Task a Dequeue hands to a worker is the oldest one queued,
\* that is the next of the enqueue order, and the queue loses just that
\* Task.  A worker that finds the queue empty with the mutex free can return
\* from Dequeue at once, and its step out of Dequeue ends the worker with
\* no error: the errgroup keeps its error and its scope, the queue stays
\* empty.
C28_QueueFIFO ==
    /\ [](\E k \in 0..Len(enqueued) :
            tasks = SubSeq(enqueued, k + 1, Len(enqueued)))
    /\ [](\A w \in Workers :
            (Running /\ worker[w].pc = "dequeue" /\ mu = 0 /\ tasks = <<>>)
               => ENABLED DequeueEmpty(w))
    /\ [][\A w \in Workers :
            /\ (worker[w].task = NoTask /\ worker'[w].task # NoTask) =>
                  /\ tasks # <<>>
                  /\ worker'[w].task = Head(tasks)
                  /\ worker'[w].task =
                        enqueued[Len(enqueued) - Len(tasks) + 1]
                  /\ tasks' = Tail(tasks)
            /\ (worker[w].pc = "dequeue" /\ worker'[w].pc # "dequeue"
                  /\ tasks = <<>>) =>
                  /\ worker'[w] = IdleWorker("done")
                  /\ tasks' = <<>>
                  /\ groupErr' = groupErr
                  /\ groupCancelled' = groupCancelled
                  /\ process' = process]_vars

\* one worker has found the queue empty and returned nil while the other
\* runs the Task enqueued last, the earlier Tasks having been handed out
C28_Witness ==
    /\ Running
    /\ Len(enqueued) >= 2
    /\ tasks = <<>>
    /\ groupErr = ""
    /\ \E w, v \in Workers :
          /\ w # v
          /\ worker[w].pc = "done"
          /\ worker[v].task = enqueued[Len(enqueued)]
          /\ worker[v].cmd = "running"
    /\ \A i \in 1..Len(enqueued) : dequeueCount[enqueued[i]] >= 1

\* C31: when the clone, the S3 client, the download, the unzip or the
\* discovery of a package fails, the process ends with status 1 and the
\* workspace removed, in the step the controller was at; the cycle has no
\* scheduler, no Task was enqueued or handed out, no subprocess started, and
\* no worker or subprocess is left running.  A failed clone of a later
\* cycle finds the scheduler of the cycle before ended.
EarlyFailures ==
    { "clone", "clone:cancelled", "s3client", "download",
      "download:cancelled", "unzip", "list" }

ControllerStep ==
    \/ CloneOK \/ CloneFail \/ CreateS3ClientOK \/ CreateS3ClientFail
    \/ DownloadOK \/ DownloadFail \/ UnzipOK \/ UnzipFail
    \/ ListPackageOK \/ ListPackageFail \/ NoTargets \/ StartScheduler
    \/ SelectDoneChan \/ SelectCtxDone \/ SelectPark
    \/ DrainUploadStart \/ DrainUploadReturn \/ DrainFinish
    \/ DeadlineUploadStart \/ DeadlineUploadReturn \/ DeadlineCancelCycle
    \/ DeadlineFinish \/ ShutdownCancelCycle \/ ShutdownFinish

SchedulerStep ==
    \/ SchedInvalidDuration \/ SchedStartWorkers \/ SchedWaitOK
    \/ SchedWaitErr \/ SchedFailExit

WorkerStep(w) ==
    \/ DequeueEmpty(w) \/ DequeueRead(w) \/ DequeueSlice(w)
    \/ StartOK(w) \/ StartCancelled(w) \/ StartFail(w)
    \/ FinishRun(w) \/ WorkerNext(w) \/ WorkerError(w)

Fairness ==
    /\ WF_vars(ControllerStep)
    /\ WF_vars(SchedulerStep)
    /\ \A w \in Workers : WF_vars(WorkerStep(w))
    /\ \A w \in Workers : WF_vars(Kill(w))

SpecFair == Init /\ [][Next]_vars /\ Fairness

\* the controller has taken the deadline case or the shutdown case of the
\* select
CycleToEnd ==
    /\ Running
    /\ ctrlPc \in {"deadline", "deadline_upload", "deadline_cancel",
                   "deadline_wait", "cancel", "cancel_wait"}

\* the cycle is over: no worker and no subprocess is left, the controller
\* has received from doneChan and removed the workspace, and it is at the
\* clone of the next cycle or has returned
CycleEnded ==
    /\ NoWorkerActive
    /\ NoLiveSubprocess
    /\ doneChan
    /\ ~wsExists
    /\ \/ Running /\ ctrlPc = "clone" /\ lastExit = "deadline"
       \/ process = "returned"

\* the scheduler goroutine has ended the process: a worker returned an
\* error, or the budget was not positive; the workspace is removed and no
\* worker or subprocess is left
SchedulerExited ==
    /\ process = "exit1"
    /\ exitWhy \in {"worker", "budget"}
    /\ ~wsExists
    /\ NoWorkerActive
    /\ NoLiveSubprocess

DiscoveredPairs ==
    UNION { { Task(p, t) : t \in Range(pkgTargets[p]) } :
              p \in DOMAIN pkgTargets }

\* C38: once the scheduler has filled the queue, the number of Tasks
\* enqueued is the totalTargets the per-target budget was computed from,
\* and the Tasks enqueued are the discovered (package, target) pairs, each
\* of them once, for every cfg.FuzzPkgsPath, one that names a package twice
\* included.
C38_EnqueuedIsTotalTargets ==
    schedPc \in {"wait", "failed", "done"} =>
       /\ Len(enqueued) = totalTargets
       /\ Cardinality(Range(enqueued)) = Len(enqueued)
       /\ Range(enqueued) = DiscoveredPairs

\* C40: once a worker of the cycle has returned an error, no step enters
\* zipUploadCorpus in that cycle, so the corpus object of the store stays
\* what it was, however the scheduler goroutine's wait for the other
\* workers, its cleanup and its exit fall together with the controller's
\* timer.
C40_NoUploadAfterWorkerError ==
    [][groupErr # "" =>
          ~(/\ ctrlPc \notin {"drain_upload", "deadline_upload"}
            /\ ctrlPc' \in {"drain_upload", "deadline_upload"})]_vars

(***************************************************************************)
(* The corpus through one cycle after another, as data: downloadObject,    *)
(* unzip, the fuzz subprocesses saving inputs under -test.fuzzcachedir,    *)
(* zipUploadCorpus and cleanupWorkspace.  A tree is the set of the files   *)
(* under cfg.CorpusDir (the directories are those the files' names imply), *)
(* an archive is the set of its file entries.                              *)
(***************************************************************************)
\* the inputs a corpus may hold, by the elements of their paths
CorpusFiles ==
    { <<"parser", "testdata", "fuzz", "FuzzParseComplex",
        "771e938e4458e983">>,
      <<"stringutils", "testdata", "fuzz", "FuzzReverseString",
        "0345b61f9a8eecc9">> }

\* permission bits: those of the owner, of the group and of the others
Perm(u, g, o) ==
    { <<"u", b>> : b \in u } \cup { <<"g", b>> : b \in g }
       \cup { <<"o", b>> : b \in o }

M0777 == Perm({"r", "w", "x"}, {"r", "w", "x"}, {"r", "w", "x"})

M0775 == Perm({"r", "w", "x"}, {"r", "w", "x"}, {"r", "x"})

M0755 == Perm({"r", "w", "x"}, {"r", "x"}, {"r", "x"})

M0700 == Perm({"r", "w", "x"}, {}, {})

M0666 == Perm({"r", "w"}, {"r", "w"}, {"r", "w"})

M0664 == Perm({"r", "w"}, {"r", "w"}, {"r"})

M0644 == Perm({"r", "w"}, {"r"}, {"r"})

M0600 == Perm({"r", "w"}, {}, {})

\* the file mode creation masks of the process: 022 and 002
Umasks == { Perm({}, {"w"}, {"w"}), Perm({}, {}, {"w"}) }

\* the modes of the directories and of the files of a corpus
DirModes == { M0755, M0775, M0700 }

FileModes == { M0644, M0664, M0600 }

\* an entry of a directory tree, and of an archive: a directory (its name
\* in the archive ends in "/") or a file with its contents
DirEntry(path, mode) ==
    [ path |-> path, dir |-> TRUE, mode |-> mode, data |-> <<>> ]

FileEntry(path, mode) ==
    [ path |-> path, dir |-> FALSE, mode |-> mode,
      data |-> <<"contents of">> \o path ]

\* the directories above a path
Ancestors(path) == { SubSeq(path, 1, k) : k \in 1..(Len(path) - 1) }

\* the tree of the files fs, its directories of mode dm, its files of mode fm
Tree(fs, dm, fm) ==
    { FileEntry(f, fm) : f \in fs }
       \cup { DirEntry(d, dm) : d \in UNION { Ancestors(f) : f \in fs } }

Trees ==
    { Tree(fs, dm, fm) : fs \in SUBSET CorpusFiles, dm \in DirModes,
                         fm \in FileModes }

\* the archives the bucket may hold: those zipDir makes of a tree, and
\* archives of files alone, without entries for their directories
Archives ==
    { Holding(t) : t \in Trees }
       \cup { Holding({ FileEntry(f, fm) : f \in fs }) :
                fs \in SUBSET CorpusFiles, fm \in FileModes }


\* the controller variables while the corpus model runs
ControlIdle ==
    /\ cfg = [ NumWorkers |-> 1, SyncFrequency |-> 0, FuzzPkgsPath |-> <<>> ]
    /\ totalTargets = 0
    /\ ctxDone = FALSE
    /\ process = "running"
    /\ exitWhy = ""
    /\ ctrlPc = "idle"
    /\ listIdx = 1
    /\ pkgTargets = <<>>
    /\ cycleCancelled = FALSE
    /\ doneChan = FALSE
    /\ timer = "off"
    /\ schedPc = "none"
    /\ perTargetTimeout = 0
    /\ tasks = <<>>
    /\ mu = 0
    /\ groupCancelled = FALSE
    /\ groupErr = ""
    /\ worker = [ w \in Workers |-> IdleWorker("idle") ]
    /\ live = [ w \in Workers |-> 0 ]
    /\ wsExists = TRUE
    /\ enqueued = <<>>
    /\ dequeueCount = NoCount
    /\ spawnCount = NoCount
    /\ lastExit = "none"
    /\ uploadAfterSignal = FALSE

InitCorpus ==
    /\ ControlIdle
    /\ ReportIdle
    /\ URLIdle
    /\ RunIdle
    /\ store \in {NoObject} \cup Archives
    /\ corpusTree = Absent
    /\ \E m \in Umasks :
          cyc = [pc |-> "download", n |-> 0, empty |-> FALSE, zip |-> NoZip,
                 published |-> "none", saved |-> FALSE, umask |-> m]

\* downloadObject: GetObject fails with NoSuchKey: return (true, nil); only
\* the directory of corpus.zip, the workspace root, was created
DownloadNoSuchKey ==
    /\ cyc.pc = "download"
    /\ store = NoObject
    /\ cyc' = [cyc EXCEPT !.empty = TRUE, !.pc = "fuzz"]
    /\ UNCHANGED << offCorpus, store, corpusTree >>

\* downloadObject: the object is copied into corpus.zip: return (false, nil)
DownloadObject ==
    /\ cyc.pc = "download"
    /\ store # NoObject
    /\ cyc' = [cyc EXCEPT !.empty = FALSE, !.zip = store, !.pc = "unzip"]
    /\ UNCHANGED << offCorpus, store, corpusTree >>

\* the paths a tree holds
Paths(entries) == { e.path : e \in entries }

\* os.MkdirAll(path, mode): the directories of and above path that are
\* missing, each made with mode less the umask
MkdirAll(entries, path, mode, umask) ==
    { DirEntry(d, mode \ umask) :
        d \in (Ancestors(path) \cup {path}) \ Paths(entries) }

\* unzip: nothing for an archive without entries; else a directory entry is
\* made with os.MkdirAll(fullPath, f.Mode()), and a file entry with
\* os.MkdirAll(filepath.Dir(fullPath), 0755) and os.OpenFile(fullPath, ...,
\* f.Mode()); directory entries stand before the entries below them
unzip(archive, tree, umask) ==
    IF archive.entries = {} THEN tree
    ELSE LET dirs == { e \in archive.entries : e.dir }
             files == archive.entries \ dirs
             explicit == tree.entries \cup
                 { DirEntry(e.path, e.mode \ umask) :
                     e \in { d \in dirs : d.path \notin Paths(tree.entries) } }
             below == explicit \cup
                 UNION { MkdirAll(explicit, e.path, e.mode, umask) :
                           e \in dirs }
             parents == below \cup
                 UNION { MkdirAll(below, SubSeq(e.path, 1, Len(e.path) - 1),
                                  M0755, umask) : e \in files }
         IN Holding(parents \cup
                    { FileEntry(e.path, e.mode \ umask) :
                        e \in { f \in files : f.path \notin Paths(parents) } })

\* startFuzzCycles: unzip of corpus.zip into cfg.CorpusDir
Unzip ==
    /\ cyc.pc = "unzip"
    /\ corpusTree' = unzip(cyc.zip, corpusTree, cyc.umask)
    /\ cyc' = [cyc EXCEPT !.pc = "fuzz"]
    /\ UNCHANGED << offCorpus, store >>

\* a fuzz subprocess saves a new input under -test.fuzzcachedir, creating
\* the directories that are missing (os.MkdirAll 0777, os.WriteFile 0666)
FuzzerSavesInput ==
    /\ cyc.pc = "fuzz"
    /\ \E f \in CorpusFiles :
          /\ f \notin Paths(corpusTree.entries)
          /\ corpusTree' =
                Holding(corpusTree.entries
                        \cup MkdirAll(corpusTree.entries,
                                      SubSeq(f, 1, Len(f) - 1), M0777,
                                      cyc.umask)
                        \cup { FileEntry(f, M0666 \ cyc.umask) })
    /\ cyc' = [cyc EXCEPT !.saved = TRUE]
    /\ UNCHANGED << offCorpus, store >>

\* the workers are done (or the deadline has come)
FuzzingEnds ==
    /\ cyc.pc = "fuzz"
    /\ cyc' = [cyc EXCEPT !.pc = "publish"]
    /\ UNCHANGED << offCorpus, store, corpusTree >>

zipDirTopLevel(tree) ==
    IF tree.exists
    THEN [err |-> FALSE,
          buf |-> Holding({ e \in tree.entries : Len(e.path) = 1 })]
    ELSE [err |-> TRUE, buf |-> NoZip]

\* zipDir: filepath.Walk of a root that does not exist hands its error to
\* the callback, which returns it; else one entry for each file
zipDir(tree) ==
    IF tree.exists THEN [err |-> FALSE, buf |-> Holding(tree.entries)]
    ELSE [err |-> TRUE, buf |-> NoZip]

\* zipUploadCorpus: "Zipping failed" ends it; else uploadObject puts the
\* archive under CorpusKey, or fails
ZipUploadCorpus ==
    /\ cyc.pc = "publish"
    /\ LET zipped == zipDir(corpusTree)
           buf == zipped.buf IN
       IF zipped.err
       THEN /\ cyc' = [cyc EXCEPT !.published = "zip_failed",
                                  !.pc = "cleanup"]
            /\ store' = store
       ELSE \E ok \in BOOLEAN :
               /\ store' = (IF ok THEN buf ELSE store)
               /\ cyc' = [cyc EXCEPT
                            !.published = (IF ok THEN "uploaded"
                                                 ELSE "upload_failed"),
                            !.pc = "cleanup"]
    /\ UNCHANGED << offCorpus, corpusTree >>

\* cleanupWorkspace, and the loop's next turn
CycleCleanup ==
    /\ cyc.pc = "cleanup"
    /\ cyc.n < MaxCycles
    /\ corpusTree' = Absent
    /\ cyc' = [cyc EXCEPT !.pc = "download", !.n = @ + 1, !.empty = FALSE,
                           !.zip = NoZip, !.published = "none",
                           !.saved = FALSE]
    /\ UNCHANGED << offCorpus, store >>

NextCorpus ==
    \/ DownloadNoSuchKey
    \/ DownloadObject
    \/ Unzip
    \/ FuzzerSavesInput
    \/ FuzzingEnds
    \/ ZipUploadCorpus
    \/ CycleCleanup

SpecCorpus == InitCorpus /\ [][NextCorpus]_vars

\* C18: in a cycle whose download met NoSuchKey the corpus directory exists
\* while the fuzz runs proceed, and the publication of the cycle does not
\* fail for want of a directory to zip.
C18_NoSuchKeyStillPublishes ==
    cyc.empty =>
       /\ cyc.pc \in {"fuzz", "publish"} => corpusTree # Absent
       /\ cyc.pc = "cleanup" => cyc.published # "zip_failed"


\* an entry without its mode
Unmoded(entries) ==
    { [path |-> e.path, dir |-> e.dir, data |-> e.data] : e \in entries }

\* C22: what unzip makes of the archive zipDir made of a tree is that tree,
\* paths, directories, contents and modes; and a cycle without fuzzing
\* activity that uploads leaves in the bucket the entries it downloaded.
C22_ZipUnzipRoundTrip ==
    /\ \A t \in Trees \ {{}} :
          (/\ cyc.pc = "fuzz"
           /\ ~cyc.saved
           /\ ~cyc.empty
           /\ cyc.zip = zipDir(Holding(t)).buf) => corpusTree = Holding(t)
    /\ (/\ cyc.pc = "cleanup"
        /\ ~cyc.saved
        /\ ~cyc.empty
        /\ cyc.published = "uploaded")
          => Unmoded(store.entries) = Unmoded(cyc.zip.entries)

\* C23: the archive a cycle uploads holds every entry, with its contents,
\* of the archive the cycle downloaded.
C23_CorpusNeverRegresses ==
    (cyc.pc = "cleanup" /\ cyc.published = "uploaded") =>
       Unmoded(cyc.zip.entries) \subseteq Unmoded(store.entries)

C23_Witness ==
    /\ cyc.pc = "cleanup"
    /\ cyc.published = "uploaded"
    /\ cyc.saved
    /\ \E e \in cyc.zip.entries : ~e.dir
    /\ Unmoded(cyc.zip.entries) # Unmoded(store.entries)
    /\ Unmoded(cyc.zip.entries) \subseteq Unmoded(store.entries)

\* C24: the corpus is published only when scheduling has ended and before
\* the cleanup; and the clone of a next cycle begins only when the cleanup
\* of the cycle before it is over, its scheduler ended and no worker or
\* subprocess of it running.
C24_StepsInOrder ==
    /\ (Running /\ ctrlPc \in {"drain_upload", "deadline_upload"}) =>
          /\ doneChan
          /\ wsExists
    /\ (Running /\ ctrlPc = "clone" /\ lastExit # "none") =>
          /\ ~wsExists
          /\ schedPc = "done"
          /\ NoWorkerActive
          /\ NoLiveSubprocess

\* ---------------------------------------------------------------------
\* The output parser and the crash reporter
\* ---------------------------------------------------------------------

\* lines of `go test -fuzz` output: progress, the failure indicator, two
\* stack-trace lines, the notice of the saved input, and a line longer than
\* the token limit of bufio.NewScanner
PlainLine == "fuzz: elapsed: 3s, execs: 1024 (341/sec), new interesting: 2"

FailLine == "--- FAIL: FuzzParseComplex (0.01s)"

TraceLineA == "        parser_test.go:17: unexpected token"

TraceLineB == "        parser.go:42: index out of range"

InputLine ==
    "    Failing input written to testdata/fuzz/FuzzParseComplex/771e938e4458e983"

\* a second failing-input line, of another input of the same target
InputLineB ==
    "    Failing input written to testdata/fuzz/FuzzParseComplex/0a1b2c3d4e5f6071"

LongLine == "<a line of more than bufio.MaxScanTokenSize bytes>"

Lines == { PlainLine, FailLine, TraceLineA, TraceLineB, InputLine, LongLine }

\* every output stream of at most MaxStreamLen lines
Streams == {<<>>} \cup UNION { [1..n -> Lines] : n \in 1..MaxStreamLen }

\* package paths, as their elements: parser and internal/parser
ReportPackages == { <<"parser">>, <<"internal", "parser">> }

Run(pkg, lines) ==
    [ pkg |-> pkg, target |-> "FuzzParseComplex", lines |-> lines ]

\* crashes that recur over the cycles: the same trace with and without a
\* saved input and other text around it, and the same frames in another order
CrashStreams ==
    { <<FailLine, TraceLineA, TraceLineB, InputLine>>,
      <<PlainLine, FailLine, FailLine, TraceLineA, PlainLine, TraceLineB>>,
      <<FailLine, TraceLineB, TraceLineA>> }

\* failure sections that name a failing input more than once: two inputs
\* with trace lines around them, in either order, and the same input twice
RepeatedInputStreams ==
    { <<FailLine, InputLine, TraceLineA, InputLineB, TraceLineB>>,
      <<FailLine, InputLineB, InputLine>>,
      <<FailLine, TraceLineB, InputLine, InputLine, TraceLineA>> }

\* what the processors are given: one run over any stream or over a stream
\* with repeated failing-input lines, or recurring crashes in up to
\* MaxCycles successive cycles
Feeds ==
    { <<Run(pkg, lines)>> : pkg \in ReportPackages,
                            lines \in Streams \cup RepeatedInputStreams }
       \cup UNION { [1..n -> { Run(pkg, lines) : pkg \in ReportPackages,
                                                lines \in CrashStreams }]
                    : n \in 2..MaxCycles }

InitReport ==
    /\ ControlIdle
    /\ CorpusIdle
    /\ URLIdle
    /\ RunIdle
    /\ srcPath \in ProjectSrcPaths
    /\ feed \in Feeds
    /\ fp = Processor("idle")
    /\ resultsDir = NoResults
    /\ forge = NoIssues
    /\ reported = {}

\* scanner.Scan() returns false: the stream is at its end, or the next line
\* does not fit the scanner's buffer (scanner.Err() is not looked at)
ScanStops ==
    IF fp.pos > Len(Head(feed).lines) THEN TRUE
    ELSE Head(feed).lines[fp.pos] = LongLine

\* strings.Contains(line, "--- FAIL:")
ContainsFail(line) == line = FailLine

\* parseFileAndLine: file + ":" + line of the match of fuzzFileLineRegex
parseFileAndLine(line) ==
    CASE line = TraceLineA -> "parser_test.go:17"
      [] line = TraceLineB -> "parser.go:42"
      [] OTHER             -> ""

\* parseFailureLine: target and id of the match of fuzzFailureRegex
parseFailureLine(line) ==
    CASE line = InputLine ->
            [target |-> "FuzzParseComplex", id |-> "771e938e4458e983"]
      [] line = InputLineB ->
            [target |-> "FuzzParseComplex", id |-> "0a1b2c3d4e5f6071"]
      [] OTHER -> [target |-> "", id |-> ""]

\* cfg.ProjectDir and cfg.CorpusDir under the workspace root
ProjectDir == <<"go-continuous-fuzz-", "project">>

CorpusDir == <<"go-continuous-fuzz-", "corpus">>

\* executeFuzzTarget: the directory handed to the processor as corpusDir
maybeFailingCorpusPath(pkg) == ProjectDir \o pkg \o <<"testdata", "fuzz">>

\* the places a saved input of (target, id) may be readable at, each file
\* holding its own contents
InputPaths(pkg, target, id) ==
    { maybeFailingCorpusPath(pkg) \o <<target, id>>,
      CorpusDir \o <<target, id>> }

Payload(path) == <<"payload of">> \o path

readFailingInputUnchecked(corpusDir, target, id, fs) ==
    [ kind |-> "testcase", target |-> target, id |-> id,
      data |-> Payload(corpusDir \o <<target, id>>) ]

\* readFailingInput: the file's contents in a failing-testcase block, or
\* the note that reading failed
readFailingInput(corpusDir, target, id, fs) ==
    LET inputPath == corpusDir \o <<target, id>> IN
    IF inputPath \in fs
    THEN [ kind |-> "testcase", target |-> target, id |-> id,
           data |-> Payload(inputPath) ]
    ELSE [ kind |-> "read_failed", target |-> target, id |-> id,
           data |-> <<>> ]

\* NewFuzzOutputProcessor and bufio.NewScanner: a run's processor starts
StartProcessor ==
    /\ fp.pc = "idle"
    /\ feed # <<>>
    /\ fp' = Processor("scan")
    /\ UNCHANGED << offReport, srcPath, feed, resultsDir,
                    forge, reported >>

\* scanUntilFailure: one line read before the failure section
ScanLine ==
    /\ fp.pc = "scan"
    /\ ~ScanStops
    /\ fp' = [fp EXCEPT
                !.pos = @ + 1,
                !.pc = IF ContainsFail(Head(feed).lines[fp.pos])
                       THEN "failing" ELSE "scan"]
    /\ UNCHANGED << offReport, srcPath, feed, resultsDir,
                    forge, reported >>

\* scanUntilFailure returns false, and so does processFuzzStream
ScanEnds ==
    /\ fp.pc = "scan"
    /\ ScanStops
    /\ fp' = [fp EXCEPT !.pc = "done", !.ret = "false"]
    /\ UNCHANGED << offReport, srcPath, feed, resultsDir,
                    forge, reported >>

\* a loop that reads the input named by every matching line, the last
\* one read staying
FailureLineLastMatch ==
    /\ fp.pc = "failing"
    /\ ~ScanStops
    /\ LET run == Head(feed)
           line == run.lines[fp.pos]
           loc == parseFileAndLine(line)
           m == parseFailureLine(line)
           st == [fp EXCEPT
                    !.pos = @ + 1,
                    !.errorLog = Append(@, line),
                    !.errorData = IF loc # "" THEN Append(@, loc) ELSE @]
       IN IF m.target = "" \/ m.id = ""
          THEN fp' = st
          ELSE \E fs \in SUBSET InputPaths(run.pkg, m.target, m.id) :
                  fp' = [st EXCEPT
                           !.errorInput =
                               readFailingInput(
                                   maybeFailingCorpusPath(run.pkg),
                                   m.target, m.id, fs),
                           !.fs = fs]
    /\ UNCHANGED << offReport, srcPath, feed, resultsDir,
                    forge, reported >>

\* processFailureLines: one turn of the loop, with fs the saved inputs that
\* can be read at that time
FailureLine ==
    /\ fp.pc = "failing"
    /\ ~ScanStops
    /\ LET run == Head(feed)
           line == run.lines[fp.pos]
           loc == parseFileAndLine(line)
           m == parseFailureLine(line)
           st == [fp EXCEPT
                    !.pos = @ + 1,
                    !.errorLog = Append(@, line),
                    !.errorData = IF loc # "" THEN Append(@, loc) ELSE @]
       IN IF fp.errorInput # NoInput \/ m.target = "" \/ m.id = ""
          THEN fp' = st
          ELSE \E fs \in SUBSET InputPaths(run.pkg, m.target, m.id) :
                  fp' = [st EXCEPT
                           !.errorInput =
                               readFailingInput(
                                   maybeFailingCorpusPath(run.pkg),
                                   m.target, m.id, fs),
                           !.fs = fs]
    /\ UNCHANGED << offReport, srcPath, feed, resultsDir,
                    forge, reported >>

\* extractToken: the password of the userinfo, if there is one
extractToken(u) == IF u.user # "" /\ u.hasPassword THEN u.password ELSE ""

\* extractOwnerRepo: fewer than three parts is an error
extractOwnerRepo(u) ==
    IF Len(u.parts) < 3
    THEN [err |-> TRUE, owner |-> "", repo |-> ""]
    ELSE [err |-> FALSE, owner |-> u.parts[2], repo |-> u.parts[3]]

\* ComputeSHA256Short: the digest of pkg, fuzzTarget and errorData written
\* one after the other, cut to 16 hex characters; the digest stands for
\* what was written into it
ComputeSHA256Short(pkg, fuzzTarget, errorData) ==
    [ pkg |-> pkg, target |-> fuzzTarget, data |-> errorData ]

crashHashOfLog(run, st) ==
    ComputeSHA256Short(run.pkg, run.target, st.errorLog)

\* crashHash of processFailureLines and isCrashDuplicate
crashHash(run, st) ==
    ComputeSHA256Short(run.pkg, run.target, st.errorData)

\* "[fuzz/%s] Fuzzing crash in %s"
IssueTitle(hash, target) ==
    [ dir |-> <<>>, kind |-> "issue", hash |-> hash, target |-> target ]

\* "%s_%s_%s_failure.md": the separators of the package path are the
\* separators of the file name
logFileName(pkg, target, hash) ==
    [ dir |-> SubSeq(pkg, 1, Len(pkg) - 1), kind |-> "file",
      hash |-> hash, target |-> target ]

\* the fixed text that stands for the failing testcase of a seed-corpus crash
SeedPlaceholder ==
    [ kind |-> "seed_placeholder", target |-> "", id |-> "", data |-> <<>> ]

formatCrashReportAsIs(errorLog, errorInput) ==
    [ log |-> errorLog, input |-> errorInput, mark |-> "waterMark" ]

\* formatCrashReport: the log section, the failing testcase or the
\* placeholder, the watermark
formatCrashReport(errorLog, errorInput) ==
    [ log |-> errorLog,
      input |-> IF errorInput = NoInput THEN SeedPlaceholder ELSE errorInput,
      mark |-> "waterMark" ]

\* isIssueExist: a failed search counts as no issue
isIssueExist(title, searchOK) == searchOK /\ title \in forge.issues

\* FileExistsInDir: an entry directly in the directory whose name is fileName
FileExistsInDir(dir, fileName) ==
    fileName.dir = <<>> /\ fileName \in dir.files

\* what a reporting path was handed
CrashRecord(path, run, hash, label, fault) ==
    [ path |-> path, pkg |-> run.pkg, target |-> run.target,
      trace |-> fp.errorData, hash |-> hash, label |-> label,
      log |-> fp.errorLog, input |-> fp.errorInput, fault |-> fault ]

\* the loop of processFailureLines is over
FailingSectionEnds == fp.pc = "failing" /\ ScanStops

\* a processor whose result is false when the reporter failed
ReportedUnlessFailed(out, hash, body) ==
    [fp EXCEPT !.pc = "done",
               !.ret = IF out \in {"create_failed", "mkdir_failed",
                                   "dedup_failed", "write_failed"}
                       THEN "false" ELSE "true",
               !.calls = @ + 1, !.out = out, !.hash = hash, !.body = body]

\* processFailureLines returns, whatever the reporter met, and
\* processFuzzStream returns true
Reported(out, hash, body) ==
    [fp EXCEPT !.pc = "done", !.ret = "true", !.calls = @ + 1,
               !.out = out, !.hash = hash, !.body = body]

\* processFailureLines: url.Parse fails
ReportInvalidURL ==
    /\ FailingSectionEnds
    /\ ~srcPath.parses
    /\ fp' = Reported("invalid_url", NoHash, NoBody)
    /\ UNCHANGED << offReport, srcPath, feed, resultsDir,
                    forge, reported >>

\* processFailureLines: a token, but no owner and repository in the path
ReportNoOwnerRepo ==
    /\ FailingSectionEnds
    /\ srcPath.parses
    /\ extractToken(srcPath) # ""
    /\ extractOwnerRepo(srcPath).err
    /\ fp' = Reported("no_owner_repo", NoHash, NoBody)
    /\ UNCHANGED << offReport, srcPath, feed, resultsDir,
                    forge, reported >>

\* processFailureLines with a token: isIssueExist, then createIssue
ReportIssue ==
    /\ FailingSectionEnds
    /\ srcPath.parses
    /\ extractToken(srcPath) # ""
    /\ ~extractOwnerRepo(srcPath).err
    /\ LET run == Head(feed)
           hash == crashHash(run, fp)
           title == IssueTitle(hash, run.target)
           body == formatCrashReport(fp.errorLog, fp.errorInput)
       IN \E searchOK \in BOOLEAN :
             IF isIssueExist(title, searchOK)
             THEN /\ fp' = Reported("issue_exists", hash, body)
                  /\ forge' = forge
                  /\ reported' = reported \cup
                        {CrashRecord("forge", run, hash, title, FALSE)}
             ELSE \E createOK \in BOOLEAN :
                     /\ fp' = Reported(IF createOK THEN "issue_created"
                                       ELSE "create_failed", hash, body)
                     /\ forge' =
                          [ issues |-> IF createOK
                                       THEN forge.issues \cup {title}
                                       ELSE forge.issues,
                            created |-> Append(forge.created, title) ]
                     /\ reported' = reported \cup
                          {CrashRecord("forge", run, hash, title,
                                       ~searchOK \/ ~createOK)}
    /\ UNCHANGED << offReport, srcPath, feed, resultsDir >>

\* processFailureLines without a token: EnsureDirExists, isCrashDuplicate,
\* writeCrashLog; os.Create needs the directory of the file to exist
ReportOnDisk ==
    /\ FailingSectionEnds
    /\ srcPath.parses
    /\ extractToken(srcPath) = ""
    /\ LET run == Head(feed)
           hash == crashHash(run, fp)
           name == logFileName(run.pkg, run.target, hash)
           body == formatCrashReport(fp.errorLog, fp.errorInput)
           dir == [resultsDir EXCEPT !.exists = TRUE]
       IN \E mkdirOK, readDirOK \in BOOLEAN :
             IF ~mkdirOK
             THEN /\ fp' = Reported("mkdir_failed", NoHash, NoBody)
                  /\ UNCHANGED << resultsDir, reported >>
             ELSE IF ~readDirOK
             THEN /\ fp' = Reported("dedup_failed", hash, NoBody)
                  /\ resultsDir' = dir
                  /\ UNCHANGED reported
             ELSE IF FileExistsInDir(dir, name)
             THEN /\ fp' = Reported("known", hash, NoBody)
                  /\ resultsDir' = dir
                  /\ reported' = reported \cup
                        {CrashRecord("disk", run, hash, name, FALSE)}
             ELSE IF name.dir # <<>>
             THEN /\ fp' = Reported("write_failed", hash, NoBody)
                  /\ resultsDir' = dir
                  /\ reported' = reported \cup
                        {CrashRecord("disk", run, hash, name, FALSE)}
             ELSE \E createOK \in BOOLEAN :
                     /\ fp' = Reported(IF createOK THEN "written"
                                       ELSE "write_failed", hash,
                                       IF createOK THEN body ELSE NoBody)
                     /\ resultsDir' =
                          IF createOK
                          THEN [ dir EXCEPT
                                   !.files = @ \cup {name},
                                   !.created = Append(@, name) ]
                          ELSE dir
                     /\ reported' = reported \cup
                          {CrashRecord("disk", run, hash, name, ~createOK)}
    /\ UNCHANGED << offReport, srcPath, feed, forge >>

\* streamFuzzOutput hands the result over; the next run's processor is to come
NextRun ==
    /\ fp.pc = "done"
    /\ Len(feed) > 1
    /\ feed' = Tail(feed)
    /\ fp' = Processor("idle")
    /\ UNCHANGED << offReport, srcPath, resultsDir, forge,
                    reported >>

NextReport ==
    \/ StartProcessor
    \/ ScanLine
    \/ ScanEnds
    \/ FailureLine
    \/ ReportInvalidURL
    \/ ReportNoOwnerRepo
    \/ ReportIssue
    \/ ReportOnDisk
    \/ NextRun

SpecReport == InitReport /\ [][NextReport]_vars

\* the index of the first line the scanner cannot deliver, or one past the end
FirstLong(lines) ==
    IF \E i \in 1..Len(lines) : lines[i] = LongLine
    THEN CHOOSE i \in 1..Len(lines) :
            /\ lines[i] = LongLine
            /\ \A j \in 1..(i - 1) : lines[j] # LongLine
    ELSE Len(lines) + 1

\* the lines scanner.Text() yields
Delivered(lines) == SubSeq(lines, 1, FirstLong(lines) - 1)

\* the lines of the failure section: those delivered after the first one
\* that holds the failure indicator
Section(lines) ==
    LET d == Delivered(lines) IN
    IF \E i \in 1..Len(d) : ContainsFail(d[i])
    THEN LET first == CHOOSE i \in 1..Len(d) :
                         /\ ContainsFail(d[i])
                         /\ \A j \in 1..(i - 1) : ~ContainsFail(d[j])
         IN SubSeq(d, first + 1, Len(d))
    ELSE <<>>

HasLoc(line) == parseFileAndLine(line) # ""

\* the file:line hits of a section, in order
TraceOf(section) ==
    LET hits == SelectSeq(section, HasLoc) IN
    IF hits = <<>> THEN <<>>
    ELSE [ i \in 1..Len(hits) |-> parseFileAndLine(hits[i]) ]

\* no line of the run's failure section matches the failure-input pattern
NoInputMatch ==
    \A i \in 1..Len(Section(Head(feed).lines)) :
        parseFailureLine(Section(Head(feed).lines)[i]).target = ""

\* the file that holds the saved input of the run's first match
SavedInputUnder(root) == root \o <<fp.errorInput.target, fp.errorInput.id>>

\* C13: on the on-disk path, when no request to the file system failed for
\* a cause outside the program, the results directory holds the file of
\* every crash reported, and that file was created exactly once.
C13_OneFilePerCrash ==
    (\A r \in reported : ~r.fault) =>
       \A r \in reported :
          r.path = "disk" =>
             /\ r.label \in resultsDir.files
             /\ CountIn(resultsDir.created, r.label) = 1

\* C14: on the forge path createIssue is never called for a title for which
\* the repository already holds an issue.
C14_NoCreateForExistingTitle ==
    [][\A t \in forge.issues :
          CountIn(forge'.created, t) = CountIn(forge.created, t)]_vars

\* C15: a run's processor returns true exactly when some line of the stream
\* holds the failure indicator, and the reporter was then entered once, and
\* otherwise not at all.
C15_FailedIffFailLine ==
    fp.pc = "done" =>
       LET lines == Head(feed).lines
           sawFail == \E i \in 1..Len(lines) : ContainsFail(lines[i])
       IN /\ (fp.ret = "true") <=> sawFail
          /\ fp.calls = (IF sawFail THEN 1 ELSE 0)

\* C16: when the failure section ends without a failure-input match, a
\* report body that was formatted holds the seed-corpus placeholder and no
\* testcase data, and a signature that was computed is the one of the
\* section's file:line trace.
C16_SeedCorpusPlaceholder ==
    (fp.pc = "done" /\ fp.calls = 1 /\ NoInputMatch) =>
       /\ fp.body # NoBody => fp.body.input = SeedPlaceholder
       /\ fp.hash # NoHash =>
             fp.hash = ComputeSHA256Short(Head(feed).pkg, Head(feed).target,
                                          TraceOf(Section(Head(feed).lines)))

C16_Witness ==
    /\ fp.pc = "done"
    /\ fp.calls = 1
    /\ NoInputMatch
    /\ fp.body.input = SeedPlaceholder
    /\ fp.hash # NoHash
    /\ fp.hash.data # <<>>

\* C17 as stated: after the first failure-input match the failing input is
\* the contents of corpus_dir/<target>/<id> when that file can be read, and
\* the read-failure note when it cannot.
C17_ReadsUnderCorpusDir ==
    fp.errorInput # NoInput =>
       IF SavedInputUnder(CorpusDir) \in fp.fs
       THEN /\ fp.errorInput.kind = "testcase"
            /\ fp.errorInput.data = Payload(SavedInputUnder(CorpusDir))
       ELSE fp.errorInput.kind = "read_failed"

\* C17: after the first failure-input match the failing input is the
\* contents of <project_dir>/<package>/testdata/fuzz/<target>/<id> when that
\* file can be read, and the read-failure note when it cannot; a section
\* with a match has a failing input, and a report body that was formatted
\* holds it.
C17_ReadsUnderPackageTestdata ==
    /\ fp.errorInput # NoInput =>
          LET saved == SavedInputUnder(
                           maybeFailingCorpusPath(Head(feed).pkg)) IN
          IF saved \in fp.fs
          THEN /\ fp.errorInput.kind = "testcase"
               /\ fp.errorInput.data = Payload(saved)
          ELSE fp.errorInput.kind = "read_failed"
    /\ (fp.pc = "done" /\ fp.calls = 1 /\ ~NoInputMatch) =>
          /\ fp.errorInput # NoInput
          /\ fp.body # NoBody => fp.body.input = fp.errorInput

C17_Witness ==
    /\ fp.pc = "done"
    /\ fp.body # NoBody
    /\ fp.body.input.kind = "testcase"
    /\ fp.body.input.data =
          Payload(SavedInputUnder(maybeFailingCorpusPath(Head(feed).pkg)))
    /\ SavedInputUnder(CorpusDir) \notin fp.fs

\* C20: two crashes reported with the same package, target and ordered
\* file:line trace have the same signature and the same title or file name.
C20_SignatureOfTriple ==
    \A r1, r2 \in reported :
       (r1.pkg = r2.pkg /\ r1.target = r2.target /\ r1.trace = r2.trace) =>
          /\ r1.hash = r2.hash
          /\ r1.label = r2.label

C20_Witness ==
    \E r1, r2 \in reported :
       /\ r1.pkg = r2.pkg
       /\ r1.target = r2.target
       /\ r1.trace = r2.trace
       /\ r1.trace # <<>>
       /\ r1.log # r2.log
       /\ r1.input # r2.input
       /\ r1.hash = r2.hash

\* C29: for a crash the reporter was entered for, the forge is called
\* (search, then possibly create) exactly when the userinfo of
\* cfg.ProjectSrcPath carries a non-empty password, and the results
\* directory is gone to exactly when it does not.
C29_OnePathByToken ==
    (fp.pc = "done" /\ fp.calls = 1) =>
       LET token == srcPath.hasPassword /\ srcPath.password # "" IN
       /\ fp.out \in {"issue_exists", "issue_created", "create_failed"}
             <=> token
       /\ fp.out \in {"mkdir_failed", "dedup_failed", "known",
                       "write_failed", "written"}
             <=> ~token

\* C30: a failure of the reporter is swallowed.  Whatever the reporter met
\* (a failed search or createIssue, a results directory that cannot be
\* made, read or written), the processor's result is true and the reporter
\* was entered once; with that result executeFuzzTarget returns nil for
\* every outcome of cmd.Wait, the removal of the failing input aside; and
\* the processor of the next run can start.
C30_ReporterFailureSwallowed ==
    (fp.pc = "done" /\ fp.calls = 1) =>
       /\ fp.ret = "true"
       /\ \A waitErr, ctxErr \in BOOLEAN :
             PostRun(waitErr, ctxErr, fp.ret = "true", TRUE) = "nil"
       /\ Len(feed) > 1 => ENABLED NextRun

\* after a run whose report could not be written or filed, a later run's
\* crash has been reported
C30_Witness ==
    /\ \E r \in reported : r.fault
    /\ fp.pc = "done"
    /\ fp.ret = "true"
    /\ fp.out \in {"written", "issue_created"}

\* the input named by the first line of a section that matches the
\* failure-input pattern, or none
FirstInputOf(section) ==
    IF \E i \in 1..Len(section) : parseFailureLine(section[i]).target # ""
    THEN parseFailureLine(section[
            CHOOSE i \in 1..Len(section) :
               /\ parseFailureLine(section[i]).target # ""
               /\ \A j \in 1..(i - 1) :
                     parseFailureLine(section[j]).target = ""])
    ELSE [target |-> "", id |-> ""]

\* C33: when the reporter is entered, the failing input is the one named by
\* the first line of the failure section that matches the failure-input
\* pattern, read or noted as unreadable, whatever matching lines follow;
\* it is none when no line matches; the error log holds every line of the
\* section, and the trace the file:line hit of every line that has one.
C33_FirstInputMatchOnly ==
    (fp.pc = "done" /\ fp.calls = 1) =>
       LET section == Section(Head(feed).lines)
           first == FirstInputOf(section)
       IN /\ fp.errorLog = section
          /\ fp.errorData = TraceOf(section)
          /\ first.target = "" <=> fp.errorInput = NoInput
          /\ first.target # "" =>
                /\ fp.errorInput.target = first.target
                /\ fp.errorInput.id = first.id
                /\ fp.errorInput.kind \in {"testcase", "read_failed"}

\* the file of the first match could not be read; a later line of the
\* section names another input and a line after it has a file:line hit
C33_Witness ==
    /\ fp.pc = "done"
    /\ fp.calls = 1
    /\ fp.errorInput.kind = "read_failed"
    /\ fp.errorInput.id = "771e938e4458e983"
    /\ \E i, j \in 1..Len(fp.errorLog) :
          /\ i < j
          /\ parseFailureLine(fp.errorLog[i]).id = "0a1b2c3d4e5f6071"
          /\ parseFileAndLine(fp.errorLog[j]) # ""
          /\ parseFileAndLine(fp.errorLog[j]) = fp.errorData[Len(fp.errorData)]

\* C37: every CrashRecord is materialized.  After the reporter has handled
\* a crash and no call to the forge or to the file system failed for a
\* cause outside the program, an issue with the report's title exists on
\* the forge or the report file of package, target and signature lies
\* directly in the results directory, whatever cfg.ProjectSrcPath and the
\* package path are.
C37_CrashMaterialized ==
    (fp.pc = "done" /\ fp.calls = 1) =>
       LET run == Head(feed)
           name == logFileName(run.pkg, run.target, fp.hash)
           callFailed ==
              \/ fp.out \in {"create_failed", "mkdir_failed", "dedup_failed"}
              \/ fp.out = "write_failed" /\ name.dir = <<>>
       IN ~callFailed =>
             \/ IssueTitle(fp.hash, run.target) \in forge.issues
             \/ name.dir = <<>> /\ name \in resultsDir.files

\* ---------------------------------------------------------------------
\* The repository URL in the log
\* ---------------------------------------------------------------------

\* the repository URLs the log model starts from: two spellings of the
\* scheme and of the host, with and without a user name, and with
\* passwords, one of them holding a character url.Parse does not take in a
\* userinfo
RawURLs ==
    { URLString(scheme, userinfo, host, path) :
        scheme \in {"https", "HTTPS"},
        userinfo \in { <<>>, <<"user">>, <<"git">> }
                       \cup { <<name, ":", pwd>> :
                                name \in {"user", "bot"},
                                pwd \in {"pass", "ghp_token", "pa^ss"} },
        host \in {"github.com", "GitHub.com"},
        path \in {"/OWNER/REPO.git", "/owner/repo"} }

\* net/url validUserinfo: letters, digits and -._:~!$&'()*+,;=%@ only
validUserinfo(userinfo) ==
    \A i \in 1..Len(userinfo) : userinfo[i] # "pa^ss"

\* strings.ToLower of the scheme
ToLower(scheme) == IF scheme = "HTTPS" THEN "https" ELSE scheme

\* net/url escape of a user name: the asterisk is written %2A
EscapeUser(name) == IF name = "*****" THEN "%2A%2A%2A%2A%2A" ELSE name

\* url.Parse: an error for a userinfo it does not take; the scheme in lower
\* case; User nil without a userinfo
urlParse(raw) ==
    [ err |-> ~validUserinfo(raw.userinfo),
      scheme |-> ToLower(raw.scheme),
      hasUser |-> raw.userinfo # <<>>,
      user |-> raw.userinfo,
      host |-> raw.host,
      path |-> raw.path ]

\* SanitizeURL: the string as given when it does not parse; else the parsed
\* URL written out again, its User, if any, replaced by url.User("*****")
SanitizeURL(raw) ==
    LET parsed == urlParse(raw) IN
    IF parsed.err THEN raw
    ELSE URLString(parsed.scheme,
                   IF parsed.hasUser THEN <<EscapeUser("*****")>> ELSE <<>>,
                   parsed.host, parsed.path)

InitURL ==
    /\ ControlIdle
    /\ CorpusIdle
    /\ ReportIdle
    /\ RunIdle
    /\ rawURL \in RawURLs
    /\ logged = NotLogged

\* startFuzzCycles logs "Syncing project repository" with the sanitized URL
LogSync ==
    /\ ~logged.done
    /\ logged' = [done |-> TRUE, url |-> SanitizeURL(rawURL)]
    /\ UNCHANGED << controlVars, corpusVars, reportVars, runVars, rawURL >>

NextURL == LogSync

SpecURL == InitURL /\ [][NextURL]_vars

\* C21: what is logged for a URL with userinfo holds the mask (written
\* %2A%2A%2A%2A%2A) for the whole userinfo, and scheme, host and path as
\* given; a URL without userinfo is logged as given.
C21_UserinfoMasked ==
    logged.done =>
       IF rawURL.userinfo # <<>>
       THEN /\ logged.url.userinfo = <<"%2A%2A%2A%2A%2A">>
            /\ logged.url.scheme = rawURL.scheme
            /\ logged.url.host = rawURL.host
            /\ logged.url.path = rawURL.path
       ELSE logged.url = rawURL

\* ---------------------------------------------------------------------
\* One call of executeFuzzTarget: cmd.Start, streamFuzzOutput, cmd.Wait,
\* the receive from fuzzTargetFailingChan, the checks and os.RemoveAll
\* ---------------------------------------------------------------------

\* what the subprocess prints when it is left alone: progress only, a crash
\* with its input saved, a crash on a seed corpus entry, and a crash after a
\* line the scanner cannot deliver
RunScripts ==
    { <<PlainLine>>,
      <<PlainLine, FailLine, TraceLineA, InputLine>>,
      <<FailLine, TraceLineB>>,
      <<LongLine, FailLine, InputLine>> }

\* the Task of the call
RunPkg == <<"parser">>

RunTarget == "FuzzParseComplex"

\* project_dir/<package>/testdata/fuzz/<target>
failingInputPath(pkg, target) ==
    ProjectDir \o pkg \o <<"testdata", "fuzz", target>>

\* -test.fuzzcachedir: corpus_dir/<package>/testdata/fuzz
corpusPath(pkg) == CorpusDir \o pkg \o <<"testdata", "fuzz">>

\* the files before the call: a source file of the package, a saved input
\* of another target of the package, and an input in the corpus
BaseTree ==
    { ProjectDir \o RunPkg \o <<"parser.go">>,
      failingInputPath(RunPkg, "FuzzEvalExpr") \o <<"582528ddfad69eb5">>,
      corpusPath(RunPkg) \o <<RunTarget, "771e938e4458e983">> }

\* a seed of the target that the repository holds under testdata
CheckedInSeed == failingInputPath(RunPkg, RunTarget) \o <<"seed0">>

InitRun ==
    /\ ControlIdle
    /\ CorpusIdle
    /\ ReportIdle
    /\ URLIdle
    /\ \E script \in RunScripts, done \in BOOLEAN :
          ex = [Exec("start") EXCEPT !.pkg = RunPkg, !.target = RunTarget,
                                     !.script = script, !.ctxDone = done]
    /\ disk \in { BaseTree, BaseTree \cup {CheckedInSeed} }

Event(e) == [ex EXCEPT !.events = Append(@, e)]

\* taskCtx is done: its timeout elapsed, or a scope above was cancelled
ExecCtxDone ==
    /\ ex.pc \notin {"idle", "done"}
    /\ ~ex.ctxDone
    /\ ex' = [ex EXCEPT !.ctxDone = TRUE]
    /\ UNCHANGED << offRun, disk >>

\* cmd.Start succeeds
ExecStartOK ==
    /\ ex.pc = "start"
    /\ ~ex.ctxDone
    /\ ex' = [Event("start") EXCEPT !.cmd = "running", !.pc = "stream"]
    /\ UNCHANGED << offRun, disk >>

\* cmd.Start fails under a done taskCtx: the error is passed over; the pipe
\* was closed by the failed Start
ExecStartCancelled ==
    /\ ex.pc = "start"
    /\ ex.ctxDone
    /\ ex' = [ex EXCEPT !.cmd = "notstarted", !.pc = "stream"]
    /\ UNCHANGED << offRun, disk >>

\* cmd.Start fails under a live taskCtx: "command start failed"
ExecStartFail ==
    /\ ex.pc = "start"
    /\ ~ex.ctxDone
    /\ ex' = [ex EXCEPT !.ret = "start_failed", !.pc = "done"]
    /\ UNCHANGED << offRun, disk >>

\* the subprocess prints its next line: before the failing-input line it
\* has saved the input under the package's testdata, with a progress line
\* that tells of a new interesting input it has saved one in the corpus
SubprocessWrites ==
    /\ ex.cmd = "running"
    /\ ex.written < Len(ex.script)
    /\ LET line == ex.script[ex.written + 1]
           m == parseFailureLine(line)
       IN disk' =
            IF m.target # ""
            THEN disk \cup {failingInputPath(ex.pkg, m.target) \o <<m.id>>}
            ELSE IF line = PlainLine
            THEN disk \cup {corpusPath(ex.pkg) \o
                              <<ex.target, "0345b61f9a8eecc9">>}
            ELSE disk
    /\ ex' = [ex EXCEPT !.written = @ + 1]
    /\ UNCHANGED offRun

\* the subprocess ends on its own, having printed everything
SubprocessExits ==
    /\ ex.cmd = "running"
    /\ ex.written = Len(ex.script)
    /\ ex' = [ex EXCEPT !.cmd = "exited"]
    /\ UNCHANGED << offRun, disk >>

\* exec.CommandContext kills the subprocess once taskCtx is done
SubprocessKilled ==
    /\ ex.cmd = "running"
    /\ ex.ctxDone
    /\ ex' = [ex EXCEPT !.cmd = "killed"]
    /\ UNCHANGED << offRun, disk >>

\* a read of the pipe gives EOF or an error: everything written was read
\* and no subprocess holds the write end open
\* a pipe that comes to its end only through a subprocess that was started
PipeAtEOFAfterRun == ex.pos > ex.written /\ ex.cmd \in {"exited", "killed"}

PipeAtEOF == ex.pos > ex.written /\ ex.cmd # "running"

\* scanner.Scan() returns false: the pipe is at its end, or the next line
\* does not fit the scanner's buffer
RunScanStops ==
    IF ex.pos <= ex.written THEN ex.script[ex.pos] = LongLine
    ELSE PipeAtEOF

\* a processor that starts to read as soon as the pipe exists
ParserBeginsEarly ==
    /\ ex.pc \in {"start", "stream"}
    /\ ex.parser = "none"
    /\ ex' = [Event("parse_begin") EXCEPT !.parser = "scan"]
    /\ UNCHANGED << offRun, disk >>

\* streamFuzzOutput is called: NewFuzzOutputProcessor, processFuzzStream
ParserBegins ==
    /\ ex.pc = "stream"
    /\ ex.parser = "none"
    /\ ex' = [Event("parse_begin") EXCEPT !.parser = "scan"]
    /\ UNCHANGED << offRun, disk >>

\* the processor reads one line: scanUntilFailure up to the failure
\* indicator, then processFailureLines, which reads the saved input of the
\* first failing-input line
ParserReadsLine ==
    /\ ex.parser \in {"scan", "failing"}
    /\ ex.pos <= ex.written
    /\ ~RunScanStops
    /\ LET line == ex.script[ex.pos]
           m == parseFailureLine(line)
           next == [ex EXCEPT !.pos = @ + 1]
       IN IF ex.parser = "scan"
          THEN ex' = [next EXCEPT !.parser = IF ContainsFail(line)
                                             THEN "failing" ELSE "scan"]
          ELSE IF ex.input = "none" /\ m.target # ""
          THEN ex' = [next EXCEPT
                        !.input =
                            readFailingInput(maybeFailingCorpusPath(ex.pkg),
                                             m.target, m.id, disk).kind,
                        !.events = Append(@, "read_input")]
          ELSE ex' = next
    /\ UNCHANGED << offRun, disk >>

\* the scanner stops: processFailureLines hands the crash to the reporter
\* when a failure was seen; processFuzzStream returns, streamFuzzOutput
\* sends the result on the channel (it waits while the channel is full) and
\* returns
ParserEnds ==
    /\ ex.parser \in {"scan", "failing"}
    /\ RunScanStops
    /\ Len(ex.chan) < 1
    /\ LET failed == ex.parser = "failing"
           handed == IF failed THEN Event("report") ELSE ex
       IN ex' = [handed EXCEPT
                   !.parser = "done",
                   !.chan = Append(@, failed),
                   !.sent = @ + 1,
                   !.events = Append(@, "parse_end"),
                   !.pc = "wait"]
    /\ UNCHANGED << offRun, disk >>

\* err = cmd.Wait(): the subprocess has ended, or was never started
ExecWait ==
    /\ ex.pc = "wait"
    /\ ex.cmd # "running"
    /\ \E waitErr \in WaitErrs(ex.cmd) :
          ex' = [Event("wait") EXCEPT !.waitErr = waitErr, !.pc = "recv"]
    /\ UNCHANGED << offRun, disk >>

\* isFailing := <-fuzzTargetFailingChan
ExecReceive ==
    /\ ex.pc = "recv"
    /\ ex.chan # <<>>
    /\ ex' = [ex EXCEPT !.isFailing = Head(ex.chan), !.chan = Tail(@),
                        !.received = @ + 1, !.pc = "check"]
    /\ UNCHANGED << offRun, disk >>

IsPrefix(p, q) == Len(p) <= Len(q) /\ SubSeq(q, 1, Len(p)) = p

\* a removal of the directory above the one named
RemoveAllOfParent(files, dir) ==
    { f \in files : ~IsPrefix(SubSeq(dir, 1, Len(dir) - 1), f) }

\* os.RemoveAll(dir): the directory and everything under it
RemoveAll(files, dir) == { f \in files : ~IsPrefix(dir, f) }

\* "fuzz execution failed": Wait failed, ctx.Err() is nil, no failure seen
ExecFails ==
    /\ ex.pc = "check"
    /\ ex.waitErr /\ ~ex.ctxDone /\ ~ex.isFailing
    /\ ex' = [ex EXCEPT !.pc = "done",
                        !.ret = PostRun(ex.waitErr, ex.ctxDone,
                                        ex.isFailing, TRUE)]
    /\ UNCHANGED << offRun, disk >>

\* isFailing: os.RemoveAll of the target's directory under testdata/fuzz;
\* "failing input cleanup failed" when it fails
ExecRemoves ==
    /\ ex.pc = "check"
    /\ ex.isFailing
    /\ \E rmOK \in BOOLEAN :
          /\ disk' = IF rmOK
                     THEN RemoveAll(disk, failingInputPath(ex.pkg, ex.target))
                     ELSE disk
          /\ ex' = [Event("remove") EXCEPT
                      !.pc = "done",
                      !.ret = PostRun(ex.waitErr, ex.ctxDone, ex.isFailing,
                                      rmOK)]
    /\ UNCHANGED offRun

\* no failure seen and no error to return: "Fuzzing completed successfully"
ExecReturns ==
    /\ ex.pc = "check"
    /\ ~ex.isFailing
    /\ ~(ex.waitErr /\ ~ex.ctxDone)
    /\ ex' = [ex EXCEPT !.pc = "done",
                        !.ret = PostRun(ex.waitErr, ex.ctxDone,
                                        ex.isFailing, TRUE)]
    /\ UNCHANGED << offRun, disk >>

NextExec ==
    \/ ExecCtxDone
    \/ ExecStartOK
    \/ ExecStartCancelled
    \/ ExecStartFail
    \/ SubprocessWrites
    \/ SubprocessExits
    \/ SubprocessKilled
    \/ ParserBegins
    \/ ParserReadsLine
    \/ ParserEnds
    \/ ExecWait
    \/ ExecReceive
    \/ ExecFails
    \/ ExecRemoves
    \/ ExecReturns

SpecRun == InitRun /\ [][NextExec]_vars

\* the place of the first event e of the call, 0 when there is none
At(e) ==
    IF \E i \in 1..Len(ex.events) : ex.events[i] = e
    THEN CHOOSE i \in 1..Len(ex.events) :
            /\ ex.events[i] = e
            /\ \A j \in 1..(i - 1) : ex.events[j] # e
    ELSE 0

\* C34: in one call of executeFuzzTarget the subprocess was started before
\* the processor began to read (a processor that began without a start
\* reads the pipe of a command that was never started); and the removal of
\* the target's testdata directory comes after the processor's end, which
\* itself comes after its read of the saved input and after the hand-over to
\* the reporter, the read coming before the hand-over.
C34_RunEventsOrdered ==
    /\ At("parse_begin") # 0 =>
          IF At("start") # 0 THEN At("start") < At("parse_begin")
          ELSE ex.cmd = "notstarted"
    /\ At("read_input") # 0 =>
          /\ At("parse_begin") < At("read_input")
          /\ At("report") # 0 => At("read_input") < At("report")
    /\ At("parse_end") # 0 =>
          /\ At("parse_begin") # 0
          /\ At("read_input") < At("parse_end")
          /\ At("report") < At("parse_end")
    /\ At("remove") # 0 =>
          /\ At("parse_end") # 0
          /\ At("report") # 0
          /\ At("parse_end") < At("remove")

\* a crash whose input was saved: started, read, handed over, removed
C34_Witness ==
    /\ ex.pc = "done"
    /\ ex.input = "testcase"
    /\ 0 < At("start")
    /\ At("start") < At("parse_begin")
    /\ At("parse_begin") < At("read_input")
    /\ At("read_input") < At("report")
    /\ At("report") < At("parse_end")
    /\ At("parse_end") < At("remove")
    /\ failingInputPath(RunPkg, RunTarget) \o <<"771e938e4458e983">>
          \notin disk

\* C35: a file disappears only in the removal step of a call whose
\* processor reported a failure, and only from under
\* project_dir/<package>/testdata/fuzz/<target>; a call that received the
\* processor's result went through the removal exactly when the result was
\* true, and after a removal that succeeded nothing is left under that
\* directory; the package's source, the saved inputs of its other targets
\* and the corpus stay.
C35_RemovesOnlyFailedTargetDir ==
    /\ [][(disk \ disk' # {}) =>
            /\ ex.pc = "check"
            /\ ex.isFailing
            /\ disk' \subseteq disk
            /\ \A f \in disk \ disk' :
                  IsPrefix(ProjectDir \o ex.pkg
                              \o <<"testdata", "fuzz", ex.target>>, f)]_vars
    /\ []((ex.pc = "done" /\ ex.received = 1) =>
            /\ At("remove") # 0 <=> ex.isFailing
            /\ (ex.isFailing /\ ex.ret = "nil") =>
                  \A f \in disk :
                     ~IsPrefix(ProjectDir \o ex.pkg
                                  \o <<"testdata", "fuzz", ex.target>>, f))
    /\ [](BaseTree \subseteq disk)

\* the directory of the failed target is gone with the saved input that was
\* read from it, everything else is in place
C35_Witness ==
    /\ ex.pc = "done"
    /\ ex.isFailing
    /\ ex.ret = "nil"
    /\ ex.input = "testcase"
    /\ At("remove") # 0
    /\ \A f \in disk : ~IsPrefix(failingInputPath(RunPkg, RunTarget), f)
    /\ BaseTree \subseteq disk
    /\ corpusPath(RunPkg) \o <<RunTarget, "0345b61f9a8eecc9">> \in disk

(***************************************************************************)
(* The call under fair scheduling: the goroutine of the call goes on when  *)
(* it can (the processor runs on it, streamFuzzOutput being called, not    *)
(* spawned), the timeout of taskCtx elapses (context.WithTimeout), and a   *)
(* subprocess whose taskCtx is done is killed.  Nothing is assumed of what *)
(* the subprocess does on its own.                                         *)
(***************************************************************************)
ExecStep ==
    \/ ExecStartOK \/ ExecStartCancelled \/ ExecStartFail
    \/ ParserBegins \/ ParserReadsLine \/ ParserEnds
    \/ ExecWait \/ ExecReceive
    \/ ExecFails \/ ExecRemoves \/ ExecReturns

SpecRunFair ==
    /\ InitRun
    /\ [][NextExec]_vars
    /\ WF_vars(ExecStep)
    /\ WF_vars(ExecCtxDone)
    /\ WF_vars(SubprocessKilled)

\* C39 as stated: a call that has returned has had exactly one value sent
\* on fuzzTargetFailingChan and has received exactly one.
C39_OneSendOneReceive ==
    ex.pc = "done" => ex.sent = 1 /\ ex.received = 1

\* C39, amended: the call always returns.  A call whose cmd.Start failed
\* under a live taskCtx returns "command start failed" before the channel
\* is made: no processor, nothing sent, nothing received.  In every other
\* call, one whose Start failed under a done taskCtx included, the
\* processor ends, exactly one value is sent on the channel of one slot,
\* the send finds the slot free, the receive finds the value there, and
\* exactly one value is received.
C39_DriverAlwaysReturns ==
    /\ [](/\ ex.sent <= 1
          /\ Len(ex.chan) <= 1
          /\ ex.received <= ex.sent
          /\ (ex.parser \in {"scan", "failing"}) => ex.chan = <<>>
          /\ ex.pc = "recv" => (Len(ex.chan) = 1 /\ ENABLED ExecReceive)
          /\ ex.pc = "done" =>
                IF ex.ret = "start_failed"
                THEN ex.parser = "none" /\ ex.sent = 0 /\ ex.received = 0
                ELSE /\ ex.parser = "done"
                     /\ ex.sent = 1
                     /\ ex.received = 1
                     /\ ex.chan = <<>>)
    /\ <>(ex.pc = "done")

\* a call under a taskCtx that was done at cmd.Start: the processor met the
\* closed pipe, sent false, and the call has received it and returned nil
C39_Witness ==
    /\ ex.pc = "done"
    /\ ex.cmd = "notstarted"
    /\ ex.ctxDone
    /\ ex.parser = "done"
    /\ ex.sent = 1
    /\ ex.received = 1
    /\ ~ex.isFailing
    /\ ex.ret = "nil"

====
